---- MODULE Spec2Model ----
(***************************************************************************)
(* Model of the vibeskiing game loop (src/src/components/Game.tsx).        *)
(*                                                                         *)
(* Numbers are fixed point, so that every product the code forms is an     *)
(* exact integer:                                                          *)
(*   delta time     in DtUnit-ths of a second    (0.1 s  = 2)              *)
(*   speed          in SpeedUnit-ths             (1.0    = 2000)           *)
(*   world lengths  in PosUnit-ths (x, y, z)     (1.0    = 40000)          *)
(*   score          in PosUnit-ths               (1.0    = 40000)          *)
(*   scale factors  in ScaleUnit-ths             (3.75   = 375)            *)
(* PosUnit = DtUnit * SpeedUnit, hence  40 * speed * dt  world units are   *)
(* 40 * speed * dt position units.                                         *)
(***************************************************************************)
EXTENDS Integers, Sequences, FiniteSets, TLC

DtUnit == 20
SpeedUnit == 2000
PosUnit == 40000
ScaleUnit == 100

Min(a, b) == IF a < b THEN a ELSE b
Max(a, b) == IF a > b THEN a ELSE b
Abs(a) == IF a < 0 THEN 0 - a ELSE a

\* Math.floor(a / b) for b > 0 (\div of TLA+ rounds toward minus infinity).
Floor(a, b) == a \div b

Vec(x, y, z) == [x |-> x, y |-> y, z |-> z]

(***************************************************************************)
(* Nullable values: null is a record of its own, a number that may be null *)
(* is wrapped.                                                             *)
(***************************************************************************)
Null == [null |-> TRUE]
Num(n) == [num |-> n]

(***************************************************************************)
(* Obstacle catalogue.  Lengths in position units, scale in ScaleUnit-ths, *)
(* weight in tenths.  The pole has collisionSegments and no                *)
(* collisionHeight, as in the source.                                      *)
(***************************************************************************)
OBSTACLES ==
  [ tree |-> [ scale |-> Vec(500, 500, 500), yOffset |-> 80000,
               collisionRadius |-> 12000, collisionHeight |-> 80000,
               weight |-> 4 ],
    rock |-> [ scale |-> Vec(200, 200, 200), yOffset |-> -60000,
               collisionRadius |-> 40000, collisionHeight |-> 60000,
               weight |-> 3 ],
    bump |-> [ scale |-> Vec(100, 100, 100), yOffset |-> -114000,
               collisionRadius |-> 16000, collisionHeight |-> 12000,
               weight |-> 2 ],
    pole |-> [ scale |-> Vec(375, 375, 375), yOffset |-> 40000,
               collisionRadius |-> 12000,
               collisionSegments |->
                 << [ height |-> 120000, radius |-> 12000, yOffset |-> 0 ],
                    [ height |-> 40000, radius |-> 12000, yOffset |-> 100000 ] >>,
               weight |-> 1 ] ]

\* Object.keys(OBSTACLES): the kinds in catalogue order.
obstacleTypes == << "tree", "rock", "bump", "pole" >>

BASE_YETI_SPEED == 55
BASE_YETI_SPAWN_DISTANCE == 40
\* BASE_YETI_SPAWN_CHANCE is 0.1: in tenths.
BASE_YETI_SPAWN_CHANCE == 1

YETI_STATIC_CONFIG ==
  [ scale |-> Vec(700, 700, 700), yOffset |-> 40000,
    collisionWidth |-> 160000, collisionHeight |-> 320000,
    collisionDepth |-> 80000, boundsX |-> 2400000 ]

(***************************************************************************)
(* Collision engine.                                                       *)
(***************************************************************************)
playerWidth == 48000
playerDepth == 40000
playerHeight == 240000

\* The player's box of checkCollision and checkYetiCollision.
playerMin(playerPosition) ==
  Vec(playerPosition.x - playerWidth \div 2,
      playerPosition.y - 120000,
      playerPosition.z - playerDepth \div 2)

playerMax(playerPosition) ==
  Vec(playerPosition.x + playerWidth \div 2,
      playerPosition.y + playerHeight - 80000,
      playerPosition.z + playerDepth \div 2)

\* Variant of Overlap: boxes that only touch do not overlap.
OverlapStrict(aMin, aMax, bMin, bMax) ==
  /\ aMax.x > bMin.x
  /\ aMin.x < bMax.x
  /\ aMax.y > bMin.y
  /\ aMin.y < bMax.y
  /\ aMax.z > bMin.z
  /\ aMin.z < bMax.z

\* The six comparisons of the source's overlap test.
Overlap(aMin, aMax, bMin, bMax) ==
  /\ aMax.x >= bMin.x
  /\ aMin.x <= bMax.x
  /\ aMax.y >= bMin.y
  /\ aMin.y <= bMax.y
  /\ aMax.z >= bMin.z
  /\ aMin.z <= bMax.z

\* Box of one collision segment of a segmented kind.
segmentMin(config, segment, obstaclePosition) ==
  LET obstacleRadius == (segment.radius * config.scale.x) \div ScaleUnit
  IN  Vec(obstaclePosition.x - obstacleRadius,
          obstaclePosition.y + segment.yOffset,
          obstaclePosition.z - obstacleRadius)

segmentMax(config, segment, obstaclePosition) ==
  LET obstacleRadius == (segment.radius * config.scale.x) \div ScaleUnit
      obstacleHeight == (segment.height * config.scale.y) \div ScaleUnit
  IN  Vec(obstaclePosition.x + obstacleRadius,
          obstaclePosition.y + segment.yOffset + obstacleHeight,
          obstaclePosition.z + obstacleRadius)

\* Variant of obstacleMin: the box starts at the visual offset.
obstacleMinOffset(config, obstaclePosition) ==
  LET obstacleRadius == (config.collisionRadius * config.scale.x) \div ScaleUnit
  IN  Vec(obstaclePosition.x - obstacleRadius,
          obstaclePosition.y + config.yOffset,
          obstaclePosition.z - obstacleRadius)

\* Box of a regular obstacle (collisionHeight falls back to 2).
obstacleMin(config, obstaclePosition) ==
  LET obstacleRadius == (config.collisionRadius * config.scale.x) \div ScaleUnit
  IN  Vec(obstaclePosition.x - obstacleRadius,
          obstaclePosition.y,
          obstaclePosition.z - obstacleRadius)

obstacleMax(config, obstaclePosition) ==
  LET obstacleRadius == (config.collisionRadius * config.scale.x) \div ScaleUnit
      height == IF "collisionHeight" \in DOMAIN config
                THEN config.collisionHeight ELSE 80000
      obstacleHeight == (height * config.scale.y) \div ScaleUnit
  IN  Vec(obstaclePosition.x + obstacleRadius,
          obstaclePosition.y + obstacleHeight,
          obstaclePosition.z + obstacleRadius)

\* Variant of segmentLoop: every segment has to overlap.
RECURSIVE segmentLoopAll(_, _, _, _)
segmentLoopAll(playerPosition, config, obstaclePosition, i) ==
  IF i > Len(config.collisionSegments) THEN TRUE
  ELSE IF ~Overlap(playerMin(playerPosition), playerMax(playerPosition),
                   segmentMin(config, config.collisionSegments[i], obstaclePosition),
                   segmentMax(config, config.collisionSegments[i], obstaclePosition))
       THEN FALSE
       ELSE segmentLoopAll(playerPosition, config, obstaclePosition, i + 1)

\* The loop over config.collisionSegments, from segment i on: returns at
\* the first segment whose box overlaps, FALSE after the last one.
RECURSIVE segmentLoop(_, _, _, _)
segmentLoop(playerPosition, config, obstaclePosition, i) ==
  IF i > Len(config.collisionSegments) THEN FALSE
  ELSE IF Overlap(playerMin(playerPosition), playerMax(playerPosition),
                  segmentMin(config, config.collisionSegments[i], obstaclePosition),
                  segmentMax(config, config.collisionSegments[i], obstaclePosition))
       THEN TRUE
       ELSE segmentLoop(playerPosition, config, obstaclePosition, i + 1)

checkCollision(playerPosition, obstacle) ==
  LET config == OBSTACLES[obstacle.type]
  IN  IF "collisionSegments" \in DOMAIN config
      THEN segmentLoop(playerPosition, config, obstacle.position, 1)
      ELSE Overlap(playerMin(playerPosition), playerMax(playerPosition),
                   obstacleMin(config, obstacle.position),
                   obstacleMax(config, obstacle.position))

\* yetiPosition is a vector or Null.
checkYetiCollision(playerPosition, yetiPosition) ==
  IF yetiPosition = Null THEN FALSE
  ELSE LET yetiMin == Vec(yetiPosition.x - YETI_STATIC_CONFIG.collisionWidth \div 2,
                          yetiPosition.y + YETI_STATIC_CONFIG.yOffset,
                          yetiPosition.z - YETI_STATIC_CONFIG.collisionDepth \div 2)
           yetiMax == Vec(yetiPosition.x + YETI_STATIC_CONFIG.collisionWidth \div 2,
                          yetiPosition.y + YETI_STATIC_CONFIG.yOffset
                            + YETI_STATIC_CONFIG.collisionHeight,
                          yetiPosition.z + YETI_STATIC_CONFIG.collisionDepth \div 2)
       IN  Overlap(playerMin(playerPosition), playerMax(playerPosition),
                   yetiMin, yetiMax)

(***************************************************************************)
(* Bounds of the model.                                                    *)
(***************************************************************************)
\* Frames executed after the initial state.
MaxFrames == 4
\* Obstacles alive at the same time.
MaxObstacles == 1
\* The longest wall-clock time between two readings of the clock, in
\* DtUnit-ths: a stall, longer than the frame cap.
MaxElapsed == 3
\* The wall-clock times between two readings of the clock.
Elapsed == {1, MaxElapsed}
\* Ticks of the timer in one run.
MaxTime == 2
\* Restarts of a session.
MaxRestarts == 1

(***************************************************************************)
(* State.                                                                  *)
(***************************************************************************)
VARIABLES
  score,                  \* Game: useState(0)
  speed,                  \* Game: useState(1)
  gameOver,               \* Game: useState(false)
  showLeaderboard,        \* Game: useState(false)
  leftPressed,            \* Game: useState(false)
  rightPressed,           \* Game: useState(false)
  playerPosition,         \* GameScene: the mutable THREE.Vector3
  crashed,                \* GameScene: useState(false)
  obstacles,              \* GameScene: useState([])
  yetiState,              \* GameScene: useState({active: false, ...})
  yetiRef,                \* GameScene: yetiRef.current
  clock,                  \* GameScene: the THREE.Clock (running, elapsedTime)
  lastFrameTime,          \* GameScene: lastFrameTime.current
  visibleSegments,        \* Terrain: visibleSegments.current
  lastCleanup,            \* Terrain: lastCleanup.current
  crashAnimationCompleted,\* Player: crashAnimationCompleted.current
  rendered,               \* the props and state of the last committed render,
                          \* which the frame callbacks and handlers close over
  frame,                  \* what the last frame did (history)
  time,                   \* Game: useState(0), in tenths of a second
  history,                \* calls made so far (history): generateSegment,
                          \* onCrashComplete, handleRestart
  call,                   \* a call of a pure function on drawn arguments, or
                          \* the calls of the leaderboard service in flight
  leaderboard,            \* the rows of the persisted table 'leaderboard'
  board                   \* Leaderboard: its useState values and the position
                          \* of its asynchronous handlers

vars == << score, speed, gameOver, showLeaderboard, leftPressed, rightPressed,
           playerPosition, crashed, obstacles, yetiState, yetiRef,
           clock, lastFrameTime, visibleSegments, lastCleanup,
           crashAnimationCompleted, rendered, frame, time, history, call,
           leaderboard, board >>

\* The variables of the leaderboard: the table and the component.
leaderboardVars == << leaderboard, board >>

\* The variables of the game.
game == << score, speed, gameOver, showLeaderboard, leftPressed, rightPressed,
           playerPosition, crashed, obstacles, yetiState, yetiRef, clock,
           lastFrameTime, visibleSegments, lastCleanup,
           crashAnimationCompleted, rendered, frame, time, history >>

(***************************************************************************)
(* Pure steps of the frame callbacks.                                      *)
(***************************************************************************)
\* The frame cap 0.1 s.
DtCap == 2
\* Math.random() is drawn in RandomUnit-ths from Randoms.
RandomUnit == 1000
Randoms == {0, 999}

\* Variant of clampDelta: the delta time is not capped.
clampDeltaOff(currentTime, last) == currentTime - last

\* deltaTime of GameScene.useFrame.
clampDelta(currentTime, last) == Min(currentTime - last, DtCap)

\* clock.getElapsedTime(), e DtUnit-ths of wall-clock time after the
\* previous reading: the first reading starts the clock and yields 0.
getElapsedTime(clk, e) ==
  IF clk.running THEN [running |-> TRUE, elapsedTime |-> clk.elapsedTime + e]
  ELSE [running |-> TRUE, elapsedTime |-> 0]

baseForwardSpeed == 40
lateralSpeed == 18
boundaryX == 2000000
scoreRate == 10
speedCap == 6000

\* Variant of forwardStep: the base multiplier before it was doubled twice.
forwardStepBase10(z, spd, deltaTime) ==
  LET movementSpeed == 10 * spd
  IN  z - movementSpeed * deltaTime

\* playerPosition.z -= movementSpeed * deltaTime
forwardStep(z, spd, deltaTime) ==
  LET movementSpeed == baseForwardSpeed * spd
  IN  z - movementSpeed * deltaTime

\* if (leftPressed) x -= ...; else if (rightPressed) x += ...
lateralStep(x, left, right, deltaTime) ==
  IF left THEN x - lateralSpeed * (PosUnit \div DtUnit) * deltaTime
  ELSE IF right THEN x + lateralSpeed * (PosUnit \div DtUnit) * deltaTime
  ELSE x

\* Variant of clampX: the lateral position is not clamped.
clampXOff(x) == x

\* Math.max(-boundaryX, Math.min(boundaryX, x))
clampX(x) == Max(0 - boundaryX, Min(boundaryX, x))

movePlayer(pos, spd, left, right, deltaTime) ==
  Vec(clampX(lateralStep(pos.x, left, right, deltaTime)),
      pos.y,
      forwardStep(pos.z, spd, deltaTime))

\* Variant of scoreUpdate: the score does not scale with the speed.
scoreUpdateFlat(prev, spd, deltaTime) == prev + deltaTime * scoreRate * SpeedUnit

\* setScore(prev => prev + deltaTime * 10 * speed)
scoreUpdate(prev, spd, deltaTime) == prev + deltaTime * scoreRate * spd

\* Variant of speedUpdate: the speed is not capped.
speedUpdateUncapped(prev, deltaTime) == prev + deltaTime

\* setSpeed(prev => Math.min(3, prev + deltaTime * 0.01))
speedUpdate(prev, deltaTime) == Min(speedCap, prev + deltaTime)

inactiveYeti ==
  [active |-> FALSE, position |-> Null, direction |-> "null", spawnZ |-> Null]

\* if (!yetiState.active && !gameOver), on the values of the last render.
yetiSpawnGuard(R) == ~R.yetiState.active /\ ~R.gameOver

\* Math.random() < currentSpawnChance * deltaTime, with
\* currentSpawnChance = BASE_YETI_SPAWN_CHANCE * speed.
spawnDraw(random, spd, deltaTime) ==
  random * (10 * SpeedUnit * DtUnit)
    < BASE_YETI_SPAWN_CHANCE * spd * deltaTime * RandomUnit

\* Math.random() < 0.5 ? 'left' : 'right'
directionDraw(random) == IF random * 2 < RandomUnit THEN "left" ELSE "right"

\* Variant of yetiSpawnPosition: the yeti starts on the side it moves to.
yetiSpawnPositionFarSide(pos, spd, direction) ==
  LET currentSpawnDistance == BASE_YETI_SPAWN_DISTANCE * spd * (PosUnit \div SpeedUnit)
      startX == IF direction = "left" THEN 0 - YETI_STATIC_CONFIG.boundsX
                ELSE YETI_STATIC_CONFIG.boundsX
  IN  Vec(startX, 0, pos.z - currentSpawnDistance)

\* yetiRef.current.set(startX, startY, spawnZ)
yetiSpawnPosition(pos, spd, direction) ==
  LET currentSpawnDistance == BASE_YETI_SPAWN_DISTANCE * spd * (PosUnit \div SpeedUnit)
      startX == IF direction = "left" THEN YETI_STATIC_CONFIG.boundsX
                ELSE 0 - YETI_STATIC_CONFIG.boundsX
  IN  Vec(startX, 0, pos.z - currentSpawnDistance)

\* Variant of yetiMoveX: the sign of the direction is reversed.
yetiMoveXReversed(spd, deltaTime, direction) ==
  LET currentYetiSpeed == BASE_YETI_SPEED * spd
  IN  currentYetiSpeed * deltaTime * (IF direction = "left" THEN 1 ELSE -1)

\* moveX = currentYetiSpeed * deltaTime * (direction === 'left' ? -1 : 1)
yetiMoveX(spd, deltaTime, direction) ==
  LET currentYetiSpeed == BASE_YETI_SPEED * spd
  IN  currentYetiSpeed * deltaTime * (IF direction = "left" THEN -1 ELSE 1)

\* Variant of yetiTestGuard: the yeti is tested whether active or not.
yetiTestGuardOff(R) == TRUE

\* if (yetiState.active && checkYetiCollision(...)), on the values of the
\* last render.
yetiTestGuard(R) == R.yetiState.active

\* Variant of yetiMoveZ: the yeti keeps its distance to the player.
yetiMoveZFollowing(pos, spawnZ) == pos.z - BASE_YETI_SPAWN_DISTANCE * PosUnit

\* yetiRef.current.z = yetiState.spawnZ!
yetiMoveZ(pos, spawnZ) == spawnZ

\* Variant of yetiOutOfBounds: the yeti leaves at the middle of the slope.
yetiOutOfBoundsMiddle(direction, x) ==
  \/ direction = "left" /\ x < 0
  \/ direction = "right" /\ x > 0

\* The despawn test.
yetiOutOfBounds(direction, x) ==
  \/ direction = "left" /\ x < 0 - YETI_STATIC_CONFIG.boundsX
  \/ direction = "right" /\ x > YETI_STATIC_CONFIG.boundsX

\* Variant of despawn: the yeti stays active beyond the bound.
despawnNever(ys, outOfBounds) == ys

\* if (out of bounds) setYetiState({ active: false, position: null, ... })
despawn(ys, outOfBounds) == IF outOfBounds THEN inactiveYeti ELSE ys

\* for (const obstacle of obstacles) if (checkCollision(...)) return
RECURSIVE obstacleLoop(_, _, _)
obstacleLoop(pos, obs, i) ==
  IF i > Len(obs) THEN FALSE
  ELSE IF checkCollision(pos, obs[i]) THEN TRUE
       ELSE obstacleLoop(pos, obs, i + 1)

\* Variant of testedPosition: the tests read the position of the frame's
\* start.
testedPositionBefore(before, after) == before

\* The position the collision tests read: playerPosition is advanced in
\* place before the tests.
testedPosition(before, after) == after

\* Variant of unlessCollision: the updates run after a collision too.
unlessCollisionOff(collision, prev, next) == next

\* The return after setGameOver(true): the updates below it are skipped.
unlessCollision(collision, prev, next) == IF collision THEN prev ELSE next

\* Variant of collisionResult: the flag follows the tests of the frame.
collisionResultOfFrame(prev, collision) == collision

\* if (checkCollision(...)) { setGameOver(true); return; }, and the same
\* for the yeti: the flag is set, never cleared.
collisionResult(prev, collision) == IF collision THEN TRUE ELSE prev

(***************************************************************************)
(* GameScene.useFrame on the state st, closing over the render R.  e is    *)
(* the wall-clock time since the clock was last read, random1 and random2  *)
(* are the two draws of the spawn block.  Yields the new values and what   *)
(* the frame did.                                                          *)
(***************************************************************************)
GameSceneFrame(st, R, e, random1, random2) ==
  LET clk == getElapsedTime(st.clock, e)
      deltaTime == clampDelta(clk.elapsedTime, st.lastFrameTime)
      pos == movePlayer(st.playerPosition, R.speed, R.leftPressed,
                        R.rightPressed, deltaTime)
      \* spawn block
      doSpawn == yetiSpawnGuard(R) /\ spawnDraw(random1, R.speed, deltaTime)
      direction == directionDraw(random2)
      ref1 == IF doSpawn THEN yetiSpawnPosition(pos, R.speed, direction)
              ELSE st.yetiRef
      ys1 == IF doSpawn
             THEN [active |-> TRUE, position |-> ref1,
                   direction |-> direction, spawnZ |-> Num(ref1.z)]
             ELSE st.yetiState
      \* movement block
      doMove == /\ R.yetiState.active
                /\ R.yetiState.position # Null
                /\ R.yetiState.direction # "null"
      ref2 == IF doMove
              THEN Vec(ref1.x + yetiMoveX(R.speed, deltaTime, R.yetiState.direction),
                       ref1.y, yetiMoveZ(pos, R.yetiState.spawnZ.num))
              ELSE ref1
      ys2 == IF doMove THEN [ys1 EXCEPT !.position = ref2] ELSE ys1
      doDespawn == doMove /\ yetiOutOfBounds(R.yetiState.direction, ref2.x)
      ys3 == despawn(ys2, doDespawn)
      \* collision tests
      tested == testedPosition(st.playerPosition, pos)
      hitObstacle == obstacleLoop(tested, R.obstacles, 1)
      hitYeti == yetiTestGuard(R) /\ checkYetiCollision(tested, ref2)
      collision == hitObstacle \/ hitYeti
  IN  [ st EXCEPT
        !.playerPosition = pos,
        !.clock = clk,
        !.lastFrameTime = clk.elapsedTime,
        !.yetiRef = ref2,
        !.yetiState = ys3,
        !.gameOver = collisionResult(@, collision),
        !.score = unlessCollision(collision, @, scoreUpdate(@, R.speed, deltaTime)),
        !.speed = unlessCollision(collision, @, speedUpdate(@, deltaTime)),
        !.did = [ ran |-> TRUE, deltaTime |-> deltaTime, spawned |-> doSpawn,
                  moved |-> doMove, despawned |-> doDespawn,
                  hitObstacle |-> hitObstacle,
                  hitYeti |-> ~hitObstacle /\ hitYeti,
                  cleanup |-> st.did.cleanup ] ]

(***************************************************************************)
(* Terrain: generator and streaming.                                       *)
(***************************************************************************)
segmentLength == 8000000

\* Cells of the generator's grid that the model lets it fill, in the order
\* of its loops (z outer, x inner): kind, jittered x, jittered z - startZ.
\*   1: cell z = startZ,       x = 3,  jitter (-3, -3)
\*   2: cell z = startZ + 195, x = 3,  jitter (-3, 0.5)
GenCells ==
  << [type |-> "pole", x |-> 0, dz |-> -120000],
     [type |-> "bump", x |-> 0, dz |-> 7820000] >>

\* The subsets of S with at most k elements.
RECURSIVE SubsetsUpTo(_, _)
SubsetsUpTo(S, k) ==
  IF k <= 0 THEN {{}}
  ELSE LET smaller == SubsetsUpTo(S, k - 1)
       IN  smaller \cup { T \cup {x} : T \in smaller, x \in S }

\* The draws of the generator over the segments segs: the set of
\* (segment, cell) pairs that receive an obstacle, at most room of them.
GenDraws(segs, room) ==
  SubsetsUpTo({ <<segs[j], c>> : j \in 1..Len(segs), c \in 1..Len(GenCells) }, room)

\* generateObstaclesForSegment(startZ, endZ) under the draws gen for the
\* segment of index segmentIndex, from cell c on.
RECURSIVE generateObstaclesForSegment(_, _, _, _)
generateObstaclesForSegment(startZ, segmentIndex, gen, c) ==
  IF c > Len(GenCells) THEN << >>
  ELSE (IF <<segmentIndex, c>> \in gen
        THEN << [type |-> GenCells[c].type,
                 position |-> Vec(GenCells[c].x, 0, startZ + GenCells[c].dz)] >>
        ELSE << >>)
       \o generateObstaclesForSegment(startZ, segmentIndex, gen, c + 1)

generateSegment(segmentIndex, gen) ==
  LET startZ == segmentIndex * segmentLength
  IN  generateObstaclesForSegment(startZ, segmentIndex, gen, 1)

\* segments.flatMap(generateSegment), from position j on.
RECURSIVE flatMapGenerate(_, _, _)
flatMapGenerate(segs, gen, j) ==
  IF j > Len(segs) THEN << >>
  ELSE generateSegment(segs[j], gen) \o flatMapGenerate(segs, gen, j + 1)

\* Variant of includes: no index is found.
includesNever(seq, v) == FALSE

includes(seq, v) == \E j \in 1..Len(seq) : seq[j] = v

\* The segments Terrain.useFrame keeps around the player: currentSegment - 1
\* to currentSegment + 3.
windowOf(currentSegment) == [k \in 1..5 |-> currentSegment - 2 + k]

segmentsToGenerateOf(visible, playerZ) ==
  LET currentSegment == Floor(playerZ, segmentLength)
  IN  SelectSeq(windowOf(currentSegment), LAMBDA i : ~includes(visible, i))

\* Variant of cleanupThresholdOf: the threshold lies ahead of the window's
\* rear end.
cleanupThresholdAhead(currentSegment) == currentSegment + 2

\* const cleanupThreshold = currentSegment - 2
cleanupThresholdOf(currentSegment) == currentSegment - 2

\* Variant of TerrainFrame: the window reaches two segments further down
\* the slope and the cleanup filters nothing.
TerrainFrameNoFilter(st, R, gen) ==
  LET playerZ == R.playerZ
      currentSegment == Floor(playerZ, segmentLength)
      segmentsToGenerate ==
        SelectSeq([k \in 1..5 |-> currentSegment - 4 + k],
                  LAMBDA i : ~includes(st.visibleSegments, i))
      doCleanup == Abs(playerZ - st.lastCleanup) > segmentLength
  IN  [ st EXCEPT
        !.visibleSegments = @ \o segmentsToGenerate,
        !.obstacles = @ \o flatMapGenerate(segmentsToGenerate, gen, 1),
        !.lastCleanup = IF doCleanup THEN playerZ ELSE @,
        !.history.generated = @ \o segmentsToGenerate,
        !.did.cleanup = doCleanup ]

\* Terrain.useFrame on the state st for the prop playerZ of the render R,
\* under the generator draws gen.
TerrainFrame(st, R, gen) ==
  LET playerZ == R.playerZ
      currentSegment == Floor(playerZ, segmentLength)
      segmentsToGenerate == segmentsToGenerateOf(st.visibleSegments, playerZ)
      visible1 == st.visibleSegments \o segmentsToGenerate
      obs1 == st.obstacles \o flatMapGenerate(segmentsToGenerate, gen, 1)
      doCleanup == Abs(playerZ - st.lastCleanup) > segmentLength
      cleanupThreshold == cleanupThresholdOf(currentSegment)
  IN  [ st EXCEPT
        !.visibleSegments =
          IF doCleanup
          THEN SelectSeq(visible1, LAMBDA segment : segment >= cleanupThreshold)
          ELSE visible1,
        !.obstacles =
          IF doCleanup
          THEN SelectSeq(obs1, LAMBDA o :
                 Floor(o.position.z, segmentLength) >= cleanupThreshold)
          ELSE obs1,
        !.lastCleanup = IF doCleanup THEN playerZ ELSE @,
        !.history.generated = @ \o segmentsToGenerate,
        !.did.cleanup = doCleanup ]

\* The segments the mount effect of Terrain generates.
initialSegments == [k \in 1..5 |-> k - 3]

\* handleCrashComplete of Game, the onCrashComplete of Player.
handleCrashComplete(st) ==
  [ st EXCEPT !.showLeaderboard = TRUE,
              !.history.onCrashComplete = @ + 1 ]

\* Variant of PlayerFrame: the completion is not remembered.
PlayerFrameRepeating(st, R) ==
  IF R.crashed THEN handleCrashComplete(st) ELSE st

\* Player.useFrame: the first frame that sees crashed completes the crash
\* animation and calls onCrashComplete.
PlayerFrame(st, R) ==
  IF R.crashed /\ ~st.crashAnimationCompleted
  THEN handleCrashComplete([ st EXCEPT !.crashAnimationCompleted = TRUE ])
  ELSE st

\* What a frame in which GameScene.useFrame returns at once did.
idle ==
  [ ran |-> FALSE, deltaTime |-> 0, spawned |-> FALSE, moved |-> FALSE,
    despawned |-> FALSE, hitObstacle |-> FALSE, hitYeti |-> FALSE,
    cleanup |-> FALSE ]

\* One tick of the render loop: the useFrame callbacks of Player, Terrain
\* and GameScene in the order of their subscription, each closing over the
\* render R.
Tick(st, R, e, random1, random2, gen) ==
  LET afterPlayer == PlayerFrame(st, R)
      afterTerrain == TerrainFrame(afterPlayer, R, gen)
  IN  IF R.crashed
      THEN [ afterTerrain EXCEPT !.did = [ idle EXCEPT !.cleanup = afterTerrain.did.cleanup ] ]
      ELSE GameSceneFrame(afterTerrain, R, e, random1, random2)

(***************************************************************************)
(* Rendering.                                                              *)
(***************************************************************************)
\* What a render of the state st hands to the callbacks and handlers.
SnapshotOf(st) ==
  [ speed |-> st.speed, gameOver |-> st.gameOver,
    leftPressed |-> st.leftPressed, rightPressed |-> st.rightPressed,
    crashed |-> st.crashed, yetiState |-> st.yetiState,
    obstacles |-> st.obstacles, playerZ |-> st.playerPosition.z,
    showLeaderboard |-> st.showLeaderboard ]

\* The effects that run after the render that follows the render R: the
\* effect of GameScene on [gameOver] sets crashed.
effectsOf(st, R) ==
  [ st EXCEPT !.crashed = IF st.gameOver /\ ~R.gameOver THEN TRUE ELSE @ ]

(***************************************************************************)
(* The Leaderboard component and the writes of the leaderboard service.    *)
(* A row of the table is [id, name, score, time]; a name is a sequence of  *)
(* characters; a score handed to the service is in position units, a time  *)
(* in tenths of a second.                                                  *)
(***************************************************************************)
\* The useState values of Leaderboard after the mount; request is the
\* position of checkScore and handleSubmit.
LeaderboardMounted ==
  [ playerName |-> << >>, hasSubmitted |-> FALSE, isHighScore |-> FALSE,
    leaderboard |-> << >>, isLoading |-> TRUE, request |-> "none" ]

\* The policies of the leaderboard table: row level security is enabled,
\* and the public role may select and insert.
policies == {"SELECT", "INSERT"}

\* The id of the next row (gen_random_uuid(): an id not in the table).
RECURSIVE maxId(_, _)
maxId(rows, i) ==
  IF i > Len(rows) THEN 0 ELSE Max(rows[i].id, maxId(rows, i + 1))

\* .insert([{ name, score: Math.floor(score), time: Math.floor(time) }])
insert(rows, name, scored, timed) ==
  Append(rows, [ id |-> maxId(rows, 1) + 1, name |-> name,
                 score |-> Floor(scored, PosUnit), time |-> Floor(timed, 10) ])

\* The sets of ids that allScores.slice(10) can hold for the rows ordered
\* by score, highest first: the rows past the 10th, rows of equal score in
\* any order.
slice10(rows) ==
  LET ids == { rows[i].id : i \in 1..Len(rows) }
      scoreOf(id) == (CHOOSE i \in 1..Len(rows) : rows[i].id = id)
  IN  IF Len(rows) <= 10 THEN { {} }
      ELSE { D \in SUBSET ids :
               /\ Cardinality(D) = Len(rows) - 10
               /\ \A a \in D, b \in ids \ D :
                    rows[scoreOf(a)].score <= rows[scoreOf(b)].score }

\* .delete().in('id', ids) by the public role: a row is deleted only if a
\* policy lets the role delete it.
delete(rows, ids) ==
  IF "DELETE" \in policies
  THEN SelectSeq(rows, LAMBDA r : r.id \notin ids)
  ELSE rows

\* The characters a name is typed from.  String.prototype.toUpperCase
\* maps a character to its upper case, which for the sharp s is two
\* characters.
Characters == { "a", "B", " ", "ß" }

upperCase(ch) ==
  IF ch = "a" THEN << "A" >>
  ELSE IF ch = "ß" THEN << "S", "S" >>
  ELSE << ch >>

RECURSIVE toUpperCase(_)
toUpperCase(name) ==
  IF name = << >> THEN << >>
  ELSE upperCase(Head(name)) \o toUpperCase(Tail(name))

\* String.prototype.trim
RECURSIVE trim(_)
trim(name) ==
  IF name = << >> THEN << >>
  ELSE IF Head(name) = " " THEN trim(Tail(name))
  ELSE IF name[Len(name)] = " " THEN trim(SubSeq(name, 1, Len(name) - 1))
  ELSE name

\* The attribute maxLength of the name input, and the values an edit of the
\* user can give the input that shows value: a character is deleted, or a
\* character is typed while the value is shorter than maxLength.
maxLength == 3

edits(value) ==
  (IF value = << >> THEN {} ELSE { SubSeq(value, 1, Len(value) - 1) })
  \cup (IF Len(value) < maxLength
        THEN { Append(value, ch) : ch \in Characters } ELSE {})

\* onChange of the name input: setPlayerName(e.target.value.toUpperCase())
onChange(b, value) == [ b EXCEPT !.playerName = toUpperCase(value) ]

\* Variant of the elements: Play Again is rendered with the board only.
elementsWhenLoaded(isVisible, b) ==
  IF ~isVisible THEN {}
  ELSE {"finalScore"}
       \cup (IF b.isLoading THEN {"loading"}
             ELSE (IF b.isHighScore /\ ~b.hasSubmitted THEN {"form"} ELSE {})
                  \cup {"board", "playAgain"})

\* The elements Leaderboard renders.
elements(isVisible, b) ==
  IF ~isVisible THEN {}
  ELSE {"finalScore"}
       \cup (IF b.isLoading THEN {"loading"}
             ELSE (IF b.isHighScore /\ ~b.hasSubmitted THEN {"form"} ELSE {})
                  \cup {"board"})
       \cup {"playAgain"}

\* The effect of Leaderboard on [isVisible, currentScore] after the render
\* that follows the render R: checkScore is started when the leaderboard
\* has become visible.
checkScore(b, R, isVisible) ==
  IF isVisible /\ ~R.showLeaderboard
  THEN [ b EXCEPT !.request = "checkHighScore" ]
  ELSE b

\* The rows of the table as the number of entries per score.
countsOf(rows) ==
  [ v \in 0..3 |-> Cardinality({ i \in 1..Len(rows) : rows[i].score = v }) ]

\* .limit(n)
limit(rows, n) == SubSeq(rows, 1, Min(n, Len(rows)))

\* The results getLeaderboard can return: with an error none, otherwise
\* the first 10 rows ordered by score, highest first, rows of equal score
\* in any order.
getLeaderboard(rows, error) ==
  IF error THEN { << >> }
  ELSE { limit([ i \in 1..Len(rows) |-> rows[p[i]] ], 10) :
           p \in { q \in [ 1..Len(rows) -> 1..Len(rows) ] :
                     /\ \A i, j \in 1..Len(rows) : i # j => q[i] # q[j]
                     /\ \A i, j \in 1..Len(rows) :
                          i < j => rows[q[i]].score >= rows[q[j]].score } }

(***************************************************************************)
(* Initial states.                                                         *)
(***************************************************************************)
\* The components are mounted and their mount effects have run: Terrain
\* has generated the initial segments under the draws gen.
Mounted(gen) ==
  [ score |-> 0, speed |-> SpeedUnit, gameOver |-> FALSE,
    showLeaderboard |-> FALSE, leftPressed |-> FALSE, rightPressed |-> FALSE,
    playerPosition |-> Vec(0, 2 * PosUnit, 0), crashed |-> FALSE,
    obstacles |-> flatMapGenerate(initialSegments, gen, 1),
    yetiState |-> inactiveYeti, yetiRef |-> Vec(0, 0, 0),
    clock |-> [running |-> FALSE, elapsedTime |-> 0], lastFrameTime |-> 0,
    visibleSegments |-> initialSegments, lastCleanup |-> 0,
    crashAnimationCompleted |-> FALSE, did |-> idle, time |-> 0,
    history |-> [ generated |-> initialSegments, onCrashComplete |-> 0,
                  handleRestart |-> 0 ] ]

\* The first render saw the empty obstacle list: the list set by the mount
\* effect of Terrain reaches the callbacks with the next render.
FirstRender == [ SnapshotOf(Mounted({})) EXCEPT !.obstacles = << >> ]

\* handleKeyDown and handleKeyUp on the state st.
keyDown(st, key) ==
  [ st EXCEPT !.leftPressed = IF key = "ArrowLeft" THEN TRUE ELSE @,
              !.rightPressed = IF key = "ArrowRight" THEN TRUE ELSE @ ]

keyUp(st, key) ==
  [ st EXCEPT !.leftPressed = IF key = "ArrowLeft" THEN FALSE ELSE @,
              !.rightPressed = IF key = "ArrowRight" THEN FALSE ELSE @ ]

\* The interval callback of Game: setTime(prev => prev + 0.1).
timerTick(st) == [ st EXCEPT !.time = @ + 1 ]

\* Variant of handleRestart: the flags of the crash are reset in place.
handleRestartInPlace(st, gen) ==
  [ st EXCEPT !.gameOver = FALSE, !.crashed = FALSE,
              !.showLeaderboard = FALSE, !.crashAnimationCompleted = FALSE,
              !.did = idle,
              !.history.handleRestart = @ + 1 ]

\* handleRestart: window.location.reload() drops the state st, and the
\* page mounts again on a slope with the draws gen.
handleRestart(st, gen) ==
  [ Mounted(gen) EXCEPT !.history.handleRestart = st.history.handleRestart + 1 ]

\* A frame at the frame cap without a yeti spawn and without new
\* obstacles, followed by a render.
SteadyTick(sr) ==
  LET st == Tick(sr.st, sr.R, DtCap, RandomUnit - 1, RandomUnit - 1, {})
  IN  [ st |-> effectsOf(st, sr.R), R |-> SnapshotOf(st) ]

\* n steady ticks from sr (evaluated in halves, each half before the next).
RECURSIVE SteadyTicks(_, _)
SteadyTicks(n, sr) ==
  IF n = 0 THEN sr
  ELSE IF n = 1 THEN SteadyTick(sr)
  ELSE LET half == SteadyTicks(n \div 2, sr)
       IN  IF half.st.speed > 0 THEN SteadyTicks(n - n \div 2, half) ELSE half

\* The state of a run on an empty slope after ticks steady ticks with the
\* key held down (the first tick starts the clock and has delta time 0).
Cruise(ticks, key) ==
  LET st == keyDown(Mounted({}), key)
  IN  SteadyTicks(ticks, [ st |-> st, R |-> SnapshotOf(st) ])

\* The same on a slope whose initial segments hold the obstacles of gen.
CruiseOver(gen, ticks, key) ==
  LET st == keyDown(Mounted(gen), key)
  IN  SteadyTicks(ticks, [ st |-> st, R |-> SnapshotOf(st) ])

\* Steady ticks after which the player is one frame at the frame cap above
\* the end of the first segment it descends.
TicksToBoundary ==
  1 + segmentLength \div (baseForwardSpeed * SpeedUnit * DtCap) - 2

\* Steady ticks after which the speed is 2, and after which it is two
\* frames below its cap.
TicksToSpeed2 == 1 + (2 * SpeedUnit - SpeedUnit) \div DtCap
TicksToCap == 1 + (speedCap - SpeedUnit) \div DtCap - 2

\* The runs the model starts from: a fresh run whose generator has drawn
\* gen for the initial segments around the start, and two runs in progress.
Starts ==
  { [ st |-> Mounted(gen), R |-> FirstRender ] :
      gen \in GenDraws(<< -1, 0 >>, MaxObstacles) }
  \cup { Cruise(TicksToSpeed2, "ArrowLeft"), Cruise(TicksToCap, "ArrowRight") }

\* The runs the streaming of the terrain is followed from: runs about to
\* leave the first segment, on a slope whose generator has drawn gen for
\* the initial segments behind and ahead of the player, and a run far down
\* an empty slope.
StartsTerrain ==
  { CruiseOver(gen, TicksToBoundary, "ArrowLeft") :
      gen \in GenDraws(<< -2, 2 >>, MaxObstacles) }
  \cup { Cruise(TicksToSpeed2, "ArrowLeft") }

\* The variables as a record, and the next state as a record.
State ==
  [ score |-> score, speed |-> speed, gameOver |-> gameOver,
    showLeaderboard |-> showLeaderboard, leftPressed |-> leftPressed,
    rightPressed |-> rightPressed, playerPosition |-> playerPosition,
    crashed |-> crashed, obstacles |-> obstacles, yetiState |-> yetiState,
    yetiRef |-> yetiRef, clock |-> clock, lastFrameTime |-> lastFrameTime,
    visibleSegments |-> visibleSegments, lastCleanup |-> lastCleanup,
    crashAnimationCompleted |-> crashAnimationCompleted,
    did |-> [ k \in DOMAIN idle |-> frame[k] ],
    time |-> time, history |-> history ]

Becomes(st, n) ==
  /\ score' = st.score
  /\ speed' = st.speed
  /\ gameOver' = st.gameOver
  /\ showLeaderboard' = st.showLeaderboard
  /\ leftPressed' = st.leftPressed
  /\ rightPressed' = st.rightPressed
  /\ playerPosition' = st.playerPosition
  /\ crashed' = st.crashed
  /\ obstacles' = st.obstacles
  /\ yetiState' = st.yetiState
  /\ yetiRef' = st.yetiRef
  /\ clock' = st.clock
  /\ lastFrameTime' = st.lastFrameTime
  /\ visibleSegments' = st.visibleSegments
  /\ lastCleanup' = st.lastCleanup
  /\ crashAnimationCompleted' = st.crashAnimationCompleted
  /\ time' = st.time
  /\ history' = st.history
  /\ frame' = [ n |-> n ] @@ st.did

StartsFrom(start) ==
  /\ score = start.st.score
  /\ speed = start.st.speed
  /\ gameOver = start.st.gameOver
  /\ showLeaderboard = start.st.showLeaderboard
  /\ leftPressed = start.st.leftPressed
  /\ rightPressed = start.st.rightPressed
  /\ playerPosition = start.st.playerPosition
  /\ crashed = start.st.crashed
  /\ obstacles = start.st.obstacles
  /\ yetiState = start.st.yetiState
  /\ yetiRef = start.st.yetiRef
  /\ clock = start.st.clock
  /\ lastFrameTime = start.st.lastFrameTime
  /\ visibleSegments = start.st.visibleSegments
  /\ lastCleanup = start.st.lastCleanup
  /\ crashAnimationCompleted = start.st.crashAnimationCompleted
  /\ time = start.st.time
  /\ history = start.st.history
  /\ rendered = start.R
  /\ frame = [ n |-> 0 ] @@ start.st.did

NoCall == [ state |-> "none" ]

Init ==
  /\ \E start \in Starts : StartsFrom(start)
  /\ call = NoCall
  /\ leaderboard = << >>
  /\ board = LeaderboardMounted

(***************************************************************************)
(* Actions.                                                                *)
(***************************************************************************)
\* One tick of the render loop; the generator fills at most room cells of
\* the segments it is called for.
Frame(room) ==
  /\ frame.n < MaxFrames
  /\ \E e \in Elapsed, random1 \in Randoms, random2 \in Randoms :
     \E gen \in GenDraws(segmentsToGenerateOf(visibleSegments, rendered.playerZ),
                         room) :
       /\ Becomes(Tick(State, rendered, e, random1, random2, gen), frame.n + 1)
       /\ UNCHANGED << rendered, call, leaderboardVars >>

\* React commits a render: the callbacks and handlers now close over the
\* current state, and the effects whose dependencies changed run.
Render ==
  /\ SnapshotOf(State) # rendered
  /\ rendered' = SnapshotOf(State)
  /\ Becomes(effectsOf(State, rendered), frame.n)
  /\ board' = checkScore(board, rendered, showLeaderboard)
  /\ UNCHANGED << call, leaderboard >>

Keys == {"ArrowLeft", "ArrowRight"}

\* handleKeyDown, of the handlers registered by the last render.
KeyDown(key) ==
  /\ ~rendered.gameOver
  /\ Becomes(keyDown(State, key), frame.n)
  /\ UNCHANGED << rendered, call, leaderboardVars >>

\* handleKeyUp.
KeyUp(key) ==
  /\ Becomes(keyUp(State, key), frame.n)
  /\ UNCHANGED << rendered, call, leaderboardVars >>

\* A run on a slope whose generator adds nothing after the mount.
Next ==
  \/ Frame(0)
  \/ Render
  \/ \E key \in Keys : KeyDown(key)
  \/ \E key \in Keys : KeyUp(key)

Spec == Init /\ [][Next]_vars

(***************************************************************************)
(* The session: runs from the mount to the crash, the leaderboard and the  *)
(* restart, with the timer of Game.                                        *)
(***************************************************************************)
StartsSession ==
  { [ st |-> Mounted(gen), R |-> FirstRender ] :
      gen \in GenDraws(<< -1, 0 >>, MaxObstacles) }

InitSession ==
  /\ \E start \in StartsSession : StartsFrom(start)
  /\ call = NoCall
  /\ leaderboard = << >>
  /\ board = LeaderboardMounted

\* One tick of the render loop whose draws of Math.random() spawn no yeti,
\* on a slope whose generator adds nothing after the mount.
QuietFrame ==
  /\ frame.n < MaxFrames
  /\ \E e \in Elapsed :
       Becomes(Tick(State, rendered, e, RandomUnit - 1, RandomUnit - 1, {}),
               frame.n + 1)
  /\ UNCHANGED << rendered, call, leaderboardVars >>

\* The interval set by the effect of the last render that saw the run
\* going fires.
TimerTick ==
  /\ ~rendered.gameOver
  /\ time < MaxTime
  /\ Becomes(timerTick(State), frame.n)
  /\ UNCHANGED << rendered, call, leaderboardVars >>

\* The Play Again button of the rendered leaderboard is clicked.
Restart ==
  /\ "playAgain" \in elements(rendered.showLeaderboard, board)
  /\ history.handleRestart < MaxRestarts
  /\ \E gen \in GenDraws(<< -1, 0 >>, MaxObstacles) :
       Becomes(handleRestart(State, gen), 0)
  /\ rendered' = FirstRender
  /\ board' = LeaderboardMounted
  /\ UNCHANGED << call, leaderboard >>

NextSession ==
  \/ QuietFrame
  \/ Render
  \/ \E key \in Keys : KeyDown(key)
  \/ \E key \in Keys : KeyUp(key)
  \/ TimerTick
  \/ Restart

SpecSession == InitSession /\ [][NextSession]_vars

(***************************************************************************)
(* Streaming of the terrain: runs that cross a segment boundary, on a      *)
(* slope whose generator fills cells of the segments it is called for.     *)
(***************************************************************************)
InitTerrain ==
  /\ \E start \in StartsTerrain : StartsFrom(start)
  /\ call = NoCall
  /\ leaderboard = << >>
  /\ board = LeaderboardMounted

NextTerrain ==
  \/ Frame(MaxObstacles)
  \/ Render

SpecTerrain == InitTerrain /\ [][NextTerrain]_vars

(***************************************************************************)
(* The collision tests as functions: a call on arguments drawn from the    *)
(* sets below returns its result.                                          *)
(***************************************************************************)
\* Offsets at which the boxes of the catalogue touch, miss and overlap the
\* player's box, per axis, and heights of the slope and above it.
TestPlayerXs == {0, 40000, 40001, 69000, 84000, 104000, 104001,
                 -104000, -104001}
TestPlayerYs == {80000, 520000, 520001, 560000, -200000, -160000, -160001}
TestPlayerZs == {0, 36000, 36001, 100000, 100001, -100000, -100001}
TestObstacleYs == {0, 320000}
\* The same for the box of the yeti.
TestYetiYs == {80000, 480000, 480001, -120000, -120001}
TestYetiZs == {0, 60000, 60001, -60000, -60001}

CollisionCalls ==
  { [ state |-> "called", fn |-> "checkCollision",
      playerPosition |-> Vec(x, y, z),
      obstacle |-> [type |-> obstacleTypes[t], position |-> Vec(0, oy, 0)],
      result |-> FALSE ] :
      x \in TestPlayerXs, y \in TestPlayerYs, z \in TestPlayerZs,
      t \in 1..Len(obstacleTypes), oy \in TestObstacleYs }

YetiCollisionCalls ==
  { [ state |-> "called", fn |-> "checkYetiCollision",
      playerPosition |-> Vec(x, y, z), yetiPosition |-> yetiPosition,
      result |-> FALSE ] :
      x \in TestPlayerXs, y \in TestYetiYs, z \in TestYetiZs,
      yetiPosition \in { Null, Vec(0, 0, 0) } }

InitCollision ==
  /\ StartsFrom([ st |-> Mounted({}), R |-> FirstRender ])
  /\ call \in CollisionCalls \cup YetiCollisionCalls
  /\ leaderboard = << >>
  /\ board = LeaderboardMounted

CheckCollisionReturns ==
  /\ call.state = "called"
  /\ call.fn = "checkCollision"
  /\ call' = [ call EXCEPT !.state = "returned",
                           !.result = checkCollision(call.playerPosition,
                                                     call.obstacle) ]
  /\ UNCHANGED << score, speed, gameOver, showLeaderboard, leftPressed,
                  rightPressed, playerPosition, crashed, obstacles, yetiState,
                  yetiRef, clock, lastFrameTime, visibleSegments, lastCleanup,
                  crashAnimationCompleted, rendered, frame, time, history,
                  leaderboardVars >>

CheckYetiCollisionReturns ==
  /\ call.state = "called"
  /\ call.fn = "checkYetiCollision"
  /\ call' = [ call EXCEPT !.state = "returned",
                           !.result = checkYetiCollision(call.playerPosition,
                                                         call.yetiPosition) ]
  /\ UNCHANGED << game, leaderboardVars >>

NextCollision ==
  \/ CheckCollisionReturns
  \/ CheckYetiCollisionReturns

SpecCollision == InitCollision /\ [][NextCollision]_vars

(***************************************************************************)
(* The leaderboard queries (src/src/lib/supabase.ts and its second copy):  *)
(* a call on a table and a score drawn from the sets below returns its     *)
(* result.  A table is the number of stored entries per score; scores are  *)
(* whole points.                                                           *)
(***************************************************************************)
\* Entries of the table.
MaxEntries == 11
\* The scores of stored entries, and the scores that are checked.
StoredScores == 1..3
CheckedScores == 0..4

\* The tables with at most MaxEntries entries.
Tables ==
  { t \in [StoredScores -> 0..MaxEntries] : t[1] + t[2] + t[3] <= MaxEntries }

\* .order('score', { ascending: false }): the scores of the table from the
\* highest down, from the score v on.
RECURSIVE orderDescending(_, _)
orderDescending(table, v) ==
  IF v \notin DOMAIN table THEN << >>
  ELSE [ i \in 1..table[v] |-> v ] \o orderDescending(table, v - 1)

\* checkHighScore of src/src/lib/supabase.ts, which Leaderboard imports.
checkHighScore(table, checked, error) ==
  LET data == limit(orderDescending(table, 3), 1)
  IN  IF error THEN FALSE
      ELSE Len(data) = 0 \/ checked > data[1]

\* checkHighScore of the second copy of the library.
checkHighScoreTop10(table, checked, error) ==
  LET data == limit(orderDescending(table, 3), 10)
  IN  IF error THEN FALSE
      ELSE IF Len(data) < 10 THEN TRUE
      ELSE LET lowestScore == data[Len(data)]
           IN  checked > lowestScore

LeaderboardCalls ==
  { [ state |-> "called", fn |-> fn, table |-> table, score |-> checked,
      error |-> error, result |-> FALSE ] :
      fn \in {"checkHighScore", "checkHighScoreTop10"}, table \in Tables,
      checked \in CheckedScores, error \in BOOLEAN }

InitLeaderboard ==
  /\ StartsFrom([ st |-> Mounted({}), R |-> FirstRender ])
  /\ call \in LeaderboardCalls
  /\ leaderboard = << >>
  /\ board = LeaderboardMounted

CheckHighScoreReturns ==
  /\ call.state = "called"
  /\ call.fn = "checkHighScore"
  /\ call' = [ call EXCEPT !.state = "returned",
                           !.result = checkHighScore(call.table, call.score,
                                                     call.error) ]
  /\ UNCHANGED << game, leaderboardVars >>

CheckHighScoreTop10Returns ==
  /\ call.state = "called"
  /\ call.fn = "checkHighScoreTop10"
  /\ call' = [ call EXCEPT !.state = "returned",
                           !.result = checkHighScoreTop10(call.table, call.score,
                                                          call.error) ]
  /\ UNCHANGED << game, leaderboardVars >>

NextLeaderboard ==
  \/ CheckHighScoreReturns
  \/ CheckHighScoreTop10Returns

SpecLeaderboard == InitLeaderboard /\ [][NextLeaderboard]_vars

(***************************************************************************)
(* The writes of the leaderboard service: clients call addHighScore, of    *)
(* src/src/lib/supabase.ts or of its second copy, concurrently; every      *)
(* request of a call is a step of its own.                                 *)
(***************************************************************************)
\* Calls of addHighScore in a behaviour.
MaxCalls == 2
Clients == 1..2

\* The scores that are submitted, in position units: 0.5, 2 and 3.5 points.
SubmittedScores == { PosUnit \div 2, 2 * PosUnit, 7 * (PosUnit \div 2) }

\* A table of n rows, of 2, 3, ... points.
FilledTable(n) ==
  [ i \in 1..n |-> [ id |-> i, name |-> << "A" >>, score |-> 1 + i, time |-> 1 ] ]

Waiting == [ pc |-> "idle", fn |-> "none", score |-> 0, remove |-> {} ]

\* The service is called on an empty table, or on one that holds 10 rows.
InitService ==
  /\ StartsFrom([ st |-> Mounted({}), R |-> FirstRender ])
  /\ board = LeaderboardMounted
  /\ \E n \in {0, 10} :
       /\ leaderboard = FilledTable(n)
       /\ call = [ state |-> "service", clients |-> [ c \in Clients |-> Waiting ],
                   submitted |-> FilledTable(n), issued |-> 0,
                   requests |-> 0 ]

\* A client calls addHighScore(name, score, time): its insert is sent
\* (requests counts the requests sent to the service).
AddHighScoreCalled(c) ==
  /\ call.clients[c].pc = "idle"
  /\ call.issued < MaxCalls
  /\ \E fn \in {"addHighScore", "addHighScoreTrim"}, scored \in SubmittedScores :
       call' = [ call EXCEPT !.issued = @ + 1, !.requests = @ + 1,
                             !.clients[c] = [ pc |-> "insert", fn |-> fn,
                                              score |-> scored, remove |-> {} ] ]
  /\ UNCHANGED << game, leaderboardVars >>

\* The insert returns.  With an error the call returns false; without,
\* addHighScore of src/src/lib/supabase.ts returns true and the second
\* copy goes on to fetch all scores.
InsertReturns(c) ==
  /\ call.clients[c].pc = "insert"
  /\ \E insertError \in BOOLEAN :
       IF insertError
       THEN /\ call' = [ call EXCEPT !.clients[c] = Waiting ]
            /\ UNCHANGED leaderboard
       ELSE /\ leaderboard' = insert(leaderboard, << "A" >>,
                                     call.clients[c].score, 10)
            /\ call' = [ call EXCEPT
                         !.submitted = Append(@, leaderboard'[Len(leaderboard')]),
                         !.requests =
                           IF call.clients[c].fn = "addHighScore" THEN @ ELSE @ + 1,
                         !.clients[c] =
                           IF call.clients[c].fn = "addHighScore" THEN Waiting
                           ELSE [ @ EXCEPT !.pc = "fetch" ] ]
  /\ UNCHANGED << game, board >>

\* The fetch of all scores returns: with an error, or with no more than
\* 10 rows, the call returns true; otherwise the delete is sent for the
\* rows past the 10th.
FetchReturns(c) ==
  /\ call.clients[c].pc = "fetch"
  /\ \E fetchError \in BOOLEAN :
       IF fetchError \/ Len(leaderboard) <= 10
       THEN call' = [ call EXCEPT !.clients[c] = Waiting ]
       ELSE \E scoreIdsToRemove \in slice10(leaderboard) :
              call' = [ call EXCEPT !.requests = @ + 1,
                                    !.clients[c].pc = "delete",
                                    !.clients[c].remove = scoreIdsToRemove ]
  /\ UNCHANGED << game, leaderboardVars >>

\* The delete returns, and the call returns true.
DeleteReturns(c) ==
  /\ call.clients[c].pc = "delete"
  /\ leaderboard' = delete(leaderboard, call.clients[c].remove)
  /\ call' = [ call EXCEPT !.clients[c] = Waiting ]
  /\ UNCHANGED << game, board >>

NextService ==
  \/ \E c \in Clients : AddHighScoreCalled(c)
  \/ \E c \in Clients : InsertReturns(c)
  \/ \E c \in Clients : FetchReturns(c)
  \/ \E c \in Clients : DeleteReturns(c)

SpecService == InitService /\ [][NextService]_vars

(***************************************************************************)
(* The leaderboard dialog: runs that have crashed into the pole below the  *)
(* start, from the frame that called onCrashComplete on.  The render loop  *)
(* is left out: GameScene.useFrame and Player.useFrame return at their     *)
(* first test once the crash animation has completed.                      *)
(***************************************************************************)
\* The runs: the frame after the collision lasted e, and the timer has
\* fired t times.
StartsBoard ==
  { LET q == RandomUnit - 1
        collided == SteadyTicks(2, [ st |-> Mounted({<<0, 1>>}), R |-> FirstRender ])
        st3 == Tick(collided.st, collided.R, e, q, q, {})
        seen == [ st |-> effectsOf(st3, collided.R), R |-> SnapshotOf(st3) ]
        st4 == Tick(seen.st, seen.R, DtCap, q, q, {})
    IN  [ st |-> [ st4 EXCEPT !.time = t ], R |-> seen.R ] :
      e \in {1, 2}, t \in {3, 14} }

InitBoard ==
  /\ \E start \in StartsBoard : StartsFrom(start)
  /\ call = NoCall
  /\ leaderboard \in { FilledTable(0), FilledTable(1) }
  /\ board = LeaderboardMounted

\* A request of the component to the service, and its answer.
Sent(fn, name) ==
  [ state |-> "sent", fn |-> fn, name |-> name, score |-> score,
    time |-> time, error |-> FALSE ]

Answered(fn, error) ==
  [ state |-> "answered", fn |-> fn, name |-> << >>, score |-> score,
    time |-> time, error |-> error ]

\* The score in whole points, rounded up: a score is above a whole number
\* of points iff its points rounded up are.
pointsUp(scored) == (scored + PosUnit - 1) \div PosUnit

\* checkScore: checkHighScore(currentScore) returns.
CheckHighScoreResponds ==
  /\ board.request = "checkHighScore"
  /\ \E error \in BOOLEAN :
       /\ board' = [ board EXCEPT
                     !.isHighScore = checkHighScore(countsOf(leaderboard),
                                                    pointsUp(score), error),
                     !.request = "getLeaderboard" ]
       /\ call' = Answered("checkHighScore", error)
  /\ UNCHANGED << game, leaderboard >>

\* checkScore: getLeaderboard() returns.
GetLeaderboardResponds ==
  /\ board.request = "getLeaderboard"
  /\ \E error \in BOOLEAN :
       /\ \E data \in getLeaderboard(leaderboard, error) :
            board' = [ board EXCEPT !.leaderboard = data, !.isLoading = FALSE,
                                    !.request = "done" ]
       /\ call' = Answered("getLeaderboard", error)
  /\ UNCHANGED << game, leaderboard >>

\* The user edits the name input of the rendered form.
NameChanged ==
  /\ "form" \in elements(rendered.showLeaderboard, board)
  /\ \E value \in edits(board.playerName) : board' = onChange(board, value)
  /\ UNCHANGED << game, call, leaderboard >>

\* handleSubmit, up to its call of addHighScore.
HandleSubmit ==
  /\ "form" \in elements(rendered.showLeaderboard, board)
  /\ trim(board.playerName) # << >>
  /\ board' = [ board EXCEPT !.isLoading = TRUE, !.request = "addHighScore" ]
  /\ call' = Sent("addHighScore", toUpperCase(trim(board.playerName)))
  /\ UNCHANGED << game, leaderboard >>

\* handleSubmit: addHighScore returns; the insert fails with an error of
\* the service, or on the CHECK (char_length(name) <= 3) of the table.
AddHighScoreResponds ==
  /\ board.request = "addHighScore"
  /\ \E insertError \in BOOLEAN :
       IF insertError \/ Len(call.name) > 3
       THEN /\ board' = [ board EXCEPT !.isLoading = FALSE, !.request = "done" ]
            /\ call' = Answered("addHighScore", TRUE)
            /\ UNCHANGED leaderboard
       ELSE /\ board' = [ board EXCEPT !.request = "getLeaderboardUpdated" ]
            /\ call' = Answered("addHighScore", FALSE)
            /\ leaderboard' = insert(leaderboard, call.name, call.score, call.time)
  /\ UNCHANGED game

\* Variant of submitted: setHasSubmitted(true) is left out.
submittedForgotten(b, data) ==
  [ b EXCEPT !.leaderboard = data, !.isLoading = FALSE, !.request = "done" ]

\* setLeaderboard(updatedBoard); setHasSubmitted(true); setIsLoading(false)
submitted(b, data) ==
  [ b EXCEPT !.leaderboard = data, !.hasSubmitted = TRUE,
             !.isLoading = FALSE, !.request = "done" ]

\* handleSubmit: getLeaderboard() returns after a successful submit.
GetLeaderboardUpdatedResponds ==
  /\ board.request = "getLeaderboardUpdated"
  /\ \E error \in BOOLEAN :
       /\ \E data \in getLeaderboard(leaderboard, error) :
            board' = submitted(board, data)
       /\ call' = Answered("getLeaderboard", error)
  /\ UNCHANGED << game, leaderboard >>

NextBoard ==
  \/ Render
  \/ CheckHighScoreResponds
  \/ GetLeaderboardResponds
  \/ NameChanged
  \/ HandleSubmit
  \/ AddHighScoreResponds
  \/ GetLeaderboardUpdatedResponds
  \/ Restart

SpecBoard == InitBoard /\ [][NextBoard]_vars

(***************************************************************************)
(* The yeti: runs in which a yeti has spawned and is crossing the slope,   *)
(* shortly before it reaches the player or the far bound, and fresh runs.  *)
(***************************************************************************)
\* The key is released, and React renders.
Released(sr, key) ==
  LET st == keyUp(sr.st, key)
  IN  [ st |-> st, R |-> SnapshotOf(st) ]

\* A frame at the frame cap whose draws spawn a yeti of the direction,
\* followed by a render.
SpawnTick(sr, direction) ==
  LET st == Tick(sr.st, sr.R, DtCap, 0,
                 IF direction = "left" THEN 0 ELSE RandomUnit - 1, {})
  IN  [ st |-> effectsOf(st, sr.R), R |-> SnapshotOf(st) ]

\* A run on an empty slope: the key is held for steer steady ticks, then a
\* yeti spawns and moves for chase steady ticks.
YetiRun(key, direction, steer, chase) ==
  SteadyTicks(chase, SpawnTick(Released(Cruise(steer, key), key), direction))

\* Steady ticks of steering that bring the player onto the path of the
\* yeti, and of the chase up to two frames before the yeti is level with
\* the player, and up to two frames before it passes the far bound.
TicksToPath == 3
TicksToLevel ==
  (BASE_YETI_SPAWN_DISTANCE * PosUnit) \div (baseForwardSpeed * SpeedUnit * DtCap) - 2
TicksToBound ==
  (2 * YETI_STATIC_CONFIG.boundsX) \div (BASE_YETI_SPEED * SpeedUnit * DtCap) - 1

StartsYeti ==
  { YetiRun("ArrowRight", "left", TicksToPath, TicksToLevel),
    YetiRun("ArrowLeft", "right", TicksToPath, TicksToLevel),
    YetiRun("ArrowLeft", "left", 1, TicksToBound),
    YetiRun("ArrowRight", "right", 1, TicksToBound) }
  \cup { [ st |-> Mounted(gen), R |-> FirstRender ] : gen \in { {}, {<<0, 1>>} } }

InitYeti ==
  /\ \E start \in StartsYeti : StartsFrom(start)
  /\ call = NoCall
  /\ leaderboard = << >>
  /\ board = LeaderboardMounted

NextYeti ==
  \/ Frame(0)
  \/ Render

SpecYeti == InitYeti /\ [][NextYeti]_vars

(***************************************************************************)
(* The weighted selection of generateObstaclesForSegment as a function: a  *)
(* call on a catalogue of weights and a draw returns the selected kind.    *)
(* Weights are in tenths, draws of Math.random() in DrawUnit-ths.          *)
(***************************************************************************)
DrawUnit == 40
Draws == 0..(DrawUnit - 1)

\* The weights of OBSTACLES, and catalogues whose weights sum to 2 and to
\* 0.5.
weightsOf(catalogue) == [ type \in DOMAIN catalogue |-> catalogue[type].weight ]

Catalogues ==
  { weightsOf(OBSTACLES),
    [ tree |-> 8, rock |-> 6, bump |-> 4, pole |-> 2 ],
    [ tree |-> 2, rock |-> 1, bump |-> 1, pole |-> 1 ] }

\* Variant of selectLoop: a kind is selected when its cumulative weight
\* equals the draw.
RECURSIVE selectLoopInclusive(_, _, _, _)
selectLoopInclusive(weights, random, i, cumulativeWeight) ==
  IF i > Len(obstacleTypes) THEN obstacleTypes[1]
  ELSE LET cumulative == cumulativeWeight + weights[obstacleTypes[i]]
       IN  IF random * 10 <= cumulative * DrawUnit THEN obstacleTypes[i]
           ELSE selectLoopInclusive(weights, random, i + 1, cumulative)

\* for (const type of obstacleTypes), from kind i on: the first kind with
\* random < cumulativeWeight, obstacleTypes[0] after the last one.
RECURSIVE selectLoop(_, _, _, _)
selectLoop(weights, random, i, cumulativeWeight) ==
  IF i > Len(obstacleTypes) THEN obstacleTypes[1]
  ELSE LET cumulative == cumulativeWeight + weights[obstacleTypes[i]]
       IN  IF random * 10 < cumulative * DrawUnit THEN obstacleTypes[i]
           ELSE selectLoop(weights, random, i + 1, cumulative)

\* The sum of the weights of the kinds 1..i.
RECURSIVE cumulativeWeightOf(_, _)
cumulativeWeightOf(weights, i) ==
  IF i = 0 THEN 0 ELSE cumulativeWeightOf(weights, i - 1) + weights[obstacleTypes[i]]

\* Variant of selectType: the draw is scaled by the total weight.
selectTypeNormalized(weights, random) ==
  selectLoop([ type \in DOMAIN weights |-> 10 * weights[type] ],
             random * cumulativeWeightOf(weights, Len(obstacleTypes)), 1, 0)

\* selectedType for the draw random.
selectType(weights, random) == selectLoop(weights, random, 1, 0)

SelectionCalls ==
  { [ state |-> "called", fn |-> "selectType", weights |-> weights,
      random |-> random, result |-> "none" ] :
      weights \in Catalogues, random \in Draws }

InitSelection ==
  /\ StartsFrom([ st |-> Mounted({}), R |-> FirstRender ])
  /\ call \in SelectionCalls
  /\ leaderboard = << >>
  /\ board = LeaderboardMounted

SelectTypeReturns ==
  /\ call.state = "called"
  /\ call.fn = "selectType"
  /\ call' = [ call EXCEPT !.state = "returned",
                           !.result = selectType(call.weights, call.random) ]
  /\ UNCHANGED << game, leaderboardVars >>

NextSelection == SelectTypeReturns

SpecSelection == InitSelection /\ [][NextSelection]_vars

(***************************************************************************)
(* The ids of the obstacles: Terrain generates the segments ahead of the   *)
(* player one after the other, and every obstacle takes its id from a draw *)
(* of Math.random().                                                       *)
(***************************************************************************)
\* The values Math.random() returns for ids, and the segments generated
\* after the mount, in the order of the descent.
IdDraws == { 1, 2, 3 }
StreamedSegments == << -3, -4, -5 >>

\* id: Math.random(), for each obstacle of the list in turn.
withIds(obs, ids) ==
  [ j \in 1..Len(obs) |->
      [ type |-> obs[j].type, position |-> obs[j].position, id |-> ids[j] ] ]

InitIds ==
  /\ StartsFrom([ st |-> Mounted({}), R |-> FirstRender ])
  /\ call = [ state |-> "streaming", live |-> << >>, generated |-> 0 ]
  /\ leaderboard = << >>
  /\ board = LeaderboardMounted

\* generateSegment for the next segment, and setObstacles(prev => [...prev,
\* ...newObstacles]).
GenerateSegmentReturns ==
  /\ call.state = "streaming"
  /\ call.generated < Len(StreamedSegments)
  /\ LET segmentIndex == StreamedSegments[call.generated + 1]
     IN  \E gen \in GenDraws(<< segmentIndex >>, Len(GenCells)) :
           LET newObstacles == generateSegment(segmentIndex, gen)
           IN  \E ids \in [ 1..Len(newObstacles) -> IdDraws ] :
                 call' = [ call EXCEPT
                           !.live = @ \o withIds(newObstacles, ids),
                           !.generated = @ + 1 ]
  /\ UNCHANGED << game, leaderboardVars >>

NextIds == GenerateSegmentReturns

SpecIds == InitIds /\ [][NextIds]_vars

(***************************************************************************)
(* The yeti while frames keep arriving: runs with a yeti on its way to the *)
(* far bound, frames with a positive delta time whose draws spawn no       *)
(* further yeti, and the renders of React.                                 *)
(***************************************************************************)
StartsYetiLive ==
  { YetiRun("ArrowLeft", "left", 1, TicksToBound),
    YetiRun("ArrowRight", "right", 1, TicksToBound),
    YetiRun("ArrowLeft", "left", 1, TicksToBound + 1),
    YetiRun("ArrowRight", "right", 1, TicksToBound + 1) }

InitYetiLive ==
  /\ \E start \in StartsYetiLive : StartsFrom(start)
  /\ call = NoCall
  /\ leaderboard = << >>
  /\ board = LeaderboardMounted

\* One tick of the render loop, a positive time after the previous one.
PositiveFrame ==
  /\ frame.n < MaxFrames
  /\ \E e \in Elapsed \ {0} :
       \E next \in { Tick(State, rendered, e, RandomUnit - 1, RandomUnit - 1, {}) } :
         Becomes(next, frame.n + 1)
  /\ UNCHANGED << rendered, call, leaderboardVars >>

NextYetiLive ==
  \/ PositiveFrame
  \/ Render

\* The render loop keeps ticking, and React renders after a state change.
SpecYetiLive ==
  /\ InitYetiLive
  /\ [][NextYetiLive]_vars
  /\ WF_vars(PositiveFrame)
  /\ WF_vars(Render)

TypeOK ==
  /\ score \in Nat /\ speed \in Nat
  /\ gameOver \in BOOLEAN /\ showLeaderboard \in BOOLEAN
  /\ leftPressed \in BOOLEAN /\ rightPressed \in BOOLEAN
  /\ crashed \in BOOLEAN /\ crashAnimationCompleted \in BOOLEAN
  /\ yetiState.active \in BOOLEAN
  /\ clock.running \in BOOLEAN

(***************************************************************************)
(* Properties.                                                             *)
(***************************************************************************)
\* The step is a frame in which GameScene.useFrame ran past its crashed
\* test.
FrameRan == frame'.n # frame.n /\ frame'.ran

\* C1: after any sequence of frames, whatever the steering inputs and the
\* delta times, the player's lateral position x lies within
\* [-boundaryX, boundaryX], boundaryX = 50.
C1_LateralWithinBounds ==
  /\ boundaryX = 50 * PosUnit
  /\ playerPosition.x >= 0 - boundaryX
  /\ playerPosition.x <= boundaryX

\* A frame has steered the player left at the left boundary.
C1_Witness ==
  /\ frame.n > 0 /\ frame.ran /\ frame.deltaTime > 0
  /\ rendered.leftPressed
  /\ playerPosition.x = 0 - boundaryX

\* C2: within a run the speed multiplier never decreases from one frame to
\* the next, never exceeds its cap of 3, and starts at 1 (its value as long
\* as no frame has read the clock).
C2_SpeedMonotoneCapped ==
  /\ [](speed <= 3 * SpeedUnit)
  /\ [](~clock.running => speed = SpeedUnit)
  /\ [][speed' >= speed]_vars

\* A frame with a positive delta time has left the speed at the cap.
C2_Witness ==
  /\ frame.n > 0 /\ frame.ran /\ frame.deltaTime > 0
  /\ speed = 3 * SpeedUnit

\* C3 as stated: in every frame that runs, z decreases by
\* baseForwardSpeed * speed * dt with baseForwardSpeed = 10, so that z = 0,
\* speed = 1, dt = 0.1 give z = -1.0.
C3_Original ==
  [][FrameRan =>
       /\ playerPosition'.z
            = playerPosition.z - 10 * rendered.speed * frame'.deltaTime
       /\ (playerPosition.z = 0 /\ rendered.speed = SpeedUnit
             /\ frame'.deltaTime = DtCap
           => playerPosition'.z = 0 - PosUnit)]_vars

\* C3 amended: in every frame that runs, z decreases by exactly
\* 40 * speed * dt, for the speed of the last render and the clamped delta
\* time dt; z = 0, speed = 1, dt = 0.1 give z = -4.0.
C3_ForwardDisplacement ==
  [][FrameRan =>
       /\ frame'.deltaTime >= 0 /\ frame'.deltaTime <= DtCap
       /\ playerPosition'.z
            = playerPosition.z - 40 * rendered.speed * frame'.deltaTime
       /\ (playerPosition.z = 0 /\ rendered.speed = SpeedUnit
             /\ frame'.deltaTime = DtCap
           => playerPosition'.z = 0 - 4 * PosUnit)]_vars

\* The second frame of a fresh run, at the frame cap, has moved the player
\* from z = 0 to z = -4.
C3_Witness ==
  /\ frame.n > 0 /\ frame.ran /\ frame.deltaTime = DtCap
  /\ rendered.speed = SpeedUnit
  /\ playerPosition.z = 0 - 4 * PosUnit

\* C4: in a frame that detects no collision the score grows by exactly
\* dt * 10 * speed, for the speed of the last render, and the speed becomes
\* min(3, speed + dt * 0.01); at speed 1 and dt = 0.1 the score grows by 1.0.
C4_ScoreAndSpeed ==
  [][FrameRan /\ ~frame'.hitObstacle /\ ~frame'.hitYeti =>
       /\ PosUnit = DtUnit * SpeedUnit
       /\ score' = score + frame'.deltaTime * 10 * rendered.speed
       /\ speed' = Min(3 * SpeedUnit, speed + frame'.deltaTime)
       /\ (rendered.speed = SpeedUnit /\ frame'.deltaTime = DtCap
           => score' = score + PosUnit)]_vars

\* A frame at the frame cap has raised the score of a run at speed above 1.
C4_Witness ==
  /\ frame.n > 0 /\ frame.ran /\ frame.deltaTime = DtCap
  /\ ~frame.hitObstacle /\ ~frame.hitYeti
  /\ rendered.speed > SpeedUnit
  /\ score > 0

\* C5: in a frame in which both steering inputs are active, or neither is,
\* the lateral position does not change; it moves only when exactly one of
\* them is active.
C5_ExclusiveSteering ==
  [][FrameRan /\ rendered.leftPressed = rendered.rightPressed
       => playerPosition'.x = playerPosition.x]_vars

\* The call of checkCollision has returned.
Returned == call.state = "returned" /\ call.fn = "checkCollision"

\* The player's box overlaps the box of segment i of the called obstacle.
SegmentOverlaps(i) ==
  LET config == OBSTACLES[call.obstacle.type]
  IN  Overlap(playerMin(call.playerPosition), playerMax(call.playerPosition),
              segmentMin(config, config.collisionSegments[i], call.obstacle.position),
              segmentMax(config, config.collisionSegments[i], call.obstacle.position))

\* C6: for a kind with collisionSegments checkCollision is true iff the box
\* of at least one segment overlaps the player's box, each segment a box of
\* its own; for any other kind iff the single box derived from
\* collisionRadius and collisionHeight overlaps it.
C6_AnySegmentOrSingleBox ==
  Returned =>
    LET config == OBSTACLES[call.obstacle.type]
    IN  call.result =
          IF "collisionSegments" \in DOMAIN config
          THEN \E i \in 1..Len(config.collisionSegments) : SegmentOverlaps(i)
          ELSE Overlap(playerMin(call.playerPosition),
                       playerMax(call.playerPosition),
                       obstacleMin(config, call.obstacle.position),
                       obstacleMax(config, call.obstacle.position))

\* A pole was hit at its base segment alone, above its cross-bar segment.
C6_Witness ==
  /\ Returned /\ call.obstacle.type = "pole" /\ call.result
  /\ SegmentOverlaps(1) /\ ~SegmentOverlaps(2)

\* The regular kinds.
Regular == call.obstacle.type \in {"tree", "rock", "bump"}

\* The result for a box of half-width and half-depth
\* collisionRadius * scale.x that spans collisionHeight * scale.y upward
\* from the height base, against the player's box of 1.2 x 1.0 from 3 below
\* to 4 above the player's position.
BoxTest(base) ==
  LET config == OBSTACLES[call.obstacle.type]
      p == call.playerPosition
      o == call.obstacle.position
      halfWidth == (config.collisionRadius * config.scale.x) \div ScaleUnit
      height == (config.collisionHeight * config.scale.y) \div ScaleUnit
  IN  /\ Abs(p.x - o.x) * 10 <= halfWidth * 10 + 6 * PosUnit
      /\ Abs(p.z - o.z) * 10 <= halfWidth * 10 + 5 * PosUnit
      /\ p.y - 3 * PosUnit <= base + height
      /\ p.y + 4 * PosUnit >= base

FrameSpawned == frame'.n # frame.n /\ frame'.spawned

\* C8: the yeti is spawned only in a frame in which it is inactive and the
\* run is not over, so that no spawn overwrites a yeti that has been
\* spawned and not yet despawned.
C8_SpawnOnlyWhenInactive ==
  [][FrameSpawned => ~yetiState.active /\ ~gameOver]_vars

C10_Original ==
  [][FrameSpawned =>
       /\ yetiRef'.z = playerPosition'.z
                         - 18 * rendered.speed * (PosUnit \div SpeedUnit)
       /\ (rendered.speed = 2 * SpeedUnit
           => yetiRef'.z = playerPosition'.z - 36 * PosUnit)]_vars

\* C10 amended: a spawn sets the yeti to X = +60 when it moves left and
\* X = -60 when it moves right, Y = 0 and Z = playerZ - 40 * speed, for the
\* player's Z as advanced by that frame and the speed of the last render;
\* at speed 2 the spawn Z is playerZ - 80.
C10_SpawnPosition ==
  [][FrameSpawned =>
       /\ yetiState'.active
       /\ yetiState'.position = yetiRef'
       /\ yetiState'.spawnZ = Num(yetiRef'.z)
       /\ yetiState'.direction \in {"left", "right"}
       /\ yetiRef'.x = IF yetiState'.direction = "left"
                       THEN 60 * PosUnit ELSE 0 - 60 * PosUnit
       /\ yetiRef'.y = 0
       /\ yetiRef'.z = playerPosition'.z
                         - 40 * rendered.speed * (PosUnit \div SpeedUnit)
       /\ (rendered.speed = 2 * SpeedUnit
           => yetiRef'.z = playerPosition'.z - 80 * PosUnit)]_vars

\* A frame of a run at speed 2 that moved the player has spawned the yeti.
C10_Witness ==
  /\ frame.n > 0 /\ frame.spawned /\ frame.deltaTime > 0
  /\ rendered.speed = 2 * SpeedUnit
  /\ yetiState.active
  /\ yetiRef.z = playerPosition.z - 80 * PosUnit

\* The step is a tick of the render loop.
FrameStep == frame'.n # frame.n

\* floor(playerZ / L) for the playerZ that Terrain was rendered with.
SegmentOfPlayer == Floor(rendered.playerZ, segmentLength)

\* C11: after every streaming step for the player position playerZ the
\* visible segments contain every index from floor(playerZ/L) - 1 to
\* floor(playerZ/L) + 3, L = 200, also when the step performs a cleanup.
C11_WindowVisible ==
  [][FrameStep =>
       /\ segmentLength = 200 * PosUnit
       /\ \A i \in (SegmentOfPlayer - 1)..(SegmentOfPlayer + 3) :
            \E j \in 1..Len(visibleSegments') : visibleSegments'[j] = i]_vars

\* A streaming step has generated the segment the player approaches and
\* has performed a cleanup.
C11_Witness ==
  /\ frame.n > 0 /\ frame.cleanup
  /\ SegmentOfPlayer = -2
  /\ \E j \in 1..Len(visibleSegments) : visibleSegments[j] = -3
  /\ history.generated[Len(history.generated)] = -3

\* C12: immediately after a cleanup pass no live obstacle has a segment
\* index floor(z/L) below floor(playerZ/L) - 2, and no visible segment has
\* an index below floor(playerZ/L) - 2.
C12_NothingBeyondThreshold ==
  [][FrameStep /\ frame'.cleanup =>
       /\ \A j \in 1..Len(obstacles') :
            Floor(obstacles'[j].position.z, segmentLength) >= SegmentOfPlayer - 2
       /\ \A j \in 1..Len(visibleSegments') :
            visibleSegments'[j] >= SegmentOfPlayer - 2]_vars

\* A cleanup pass has run with an obstacle at the threshold, in segment
\* floor(playerZ/L) - 2, and an obstacle behind the player alive.
C12_Witness ==
  /\ frame.n > 0 /\ frame.cleanup
  /\ \E j \in 1..Len(obstacles) :
       Floor(obstacles[j].position.z, segmentLength) = SegmentOfPlayer - 2
  /\ \E j \in 1..Len(obstacles) :
       Floor(obstacles[j].position.z, segmentLength) > SegmentOfPlayer

\* C13: no segment index is generated again while it is visible, the
\* initial generation of the segments -2..2 included: every call of the
\* generator is for an index that is not visible at the call, and the
\* calls of one step are for different indices.
C13_GeneratedOncePerVisible ==
  /\ [](\A a, b \in 1..Len(initialSegments) :
          a # b /\ history.handleRestart = 0
            => history.generated[a] # history.generated[b])
  /\ [][FrameStep =>
         \A k \in (Len(history.generated) + 1)..Len(history'.generated) :
           /\ \A j \in 1..Len(visibleSegments) :
                visibleSegments[j] # history'.generated[k]
           /\ \A m \in (Len(history.generated) + 1)..(k - 1) :
                history'.generated[m] # history'.generated[k]]_vars

\* The generator has been called for a segment past the initial ones and
\* for the segment ahead of the start, each of them once.
C13_Witness ==
  /\ frame.n > 1
  /\ Cardinality({ k \in 1..Len(history.generated) : history.generated[k] = -3 }) = 1
  /\ Cardinality({ k \in 1..Len(history.generated) : history.generated[k] = 3 }) = 1
  /\ Cardinality({ k \in 1..Len(history.generated) : history.generated[k] = 0 }) = 1

\* C14: as the player advances over an arbitrarily long run, the number of
\* visible segments and the number of live obstacles stay below a bound
\* that does not depend on the distance travelled: here twice the segments
\* of the window, and the cells of as many segments.
C14_LiveSetsBounded ==
  /\ Len(visibleSegments) <= 2 * Len(windowOf(0))
  /\ Len(obstacles) <= 2 * Len(windowOf(0)) * Len(GenCells)

\* C15: after the first frame that detects a collision no later frame of
\* the run advances the player's position, the yeti, the score or the
\* speed, also when it runs before the crashed flag has followed the
\* gameOver flag.
C15_NoAdvanceAfterCollision ==
  [][gameOver /\ FrameStep =>
       /\ playerPosition' = playerPosition
       /\ yetiRef' = yetiRef
       /\ score' = score
       /\ speed' = speed]_vars

\* C16: the leaderboard is shown neither in the frame of the collision nor
\* as soon as the crashed flag is set, but only after the crash animation
\* has played: at least one earlier frame has seen the crashed flag.
C16_LeaderboardAfterAnimation ==
  [][~showLeaderboard /\ showLeaderboard' =>
       /\ gameOver /\ crashed
       /\ frame.n > 0 /\ ~frame.ran]_vars

\* C17: onCrashComplete is never called before a crash and at most once in
\* a run, and the first frame that sees the crashed flag has called it:
\* after any frame that sees the flag the number of calls is one.
C17_CrashCompleteOnce ==
  /\ [](history.onCrashComplete <= 1)
  /\ [](history.onCrashComplete > 0 => gameOver /\ crashed)
  /\ [][FrameStep /\ rendered.crashed => history'.onCrashComplete = 1]_vars

\* After the crash two frames have seen the crashed flag, with renders in
\* between, and onCrashComplete has been called once.
C17_Witness ==
  /\ frame.n >= 4 /\ ~frame.ran
  /\ rendered.crashed /\ rendered.showLeaderboard
  /\ crashAnimationCompleted
  /\ history.onCrashComplete = 1

\* The step is a restart of the session.
RestartStep == history'.handleRestart # history.handleRestart

\* C18: the session only moves forward through running, crashed and
\* leaderboard-shown: once gameOver is true it never becomes false, once
\* the leaderboard is shown it is never hidden, it is shown only in states
\* where the run has crashed, and only a restart leaves it.
C18_ForwardOnly ==
  /\ [](showLeaderboard => gameOver /\ crashed)
  /\ [][~RestartStep =>
          /\ gameOver => gameOver'
          /\ showLeaderboard => showLeaderboard']_vars

\* A run after a restart has crashed and shows the leaderboard again.
C18_Witness ==
  /\ history.handleRestart = 1
  /\ frame.n > 0
  /\ gameOver /\ crashed /\ showLeaderboard /\ rendered.showLeaderboard

\* C19: a restart puts every part of the session back to its initial
\* value: score 0, speed 1, time 0, not crashed, leaderboard hidden, the
\* player at its start position, the yeti inactive, the input flags
\* cleared, the clock not started and the terrain as mounted.
C19_RestartResets ==
  [][RestartStep =>
       /\ score' = 0 /\ speed' = SpeedUnit /\ time' = 0
       /\ ~gameOver' /\ ~crashed' /\ ~showLeaderboard'
       /\ ~crashAnimationCompleted'
       /\ playerPosition' = Vec(0, 2 * PosUnit, 0)
       /\ yetiState' = inactiveYeti
       /\ ~leftPressed' /\ ~rightPressed'
       /\ ~clock'.running /\ lastFrameTime' = 0
       /\ visibleSegments' = initialSegments /\ lastCleanup' = 0
       /\ history'.generated = initialSegments
       /\ history'.onCrashComplete = 0
       /\ rendered' = FirstRender
       /\ frame'.n = 0]_vars

\* The session has been restarted and no frame has run since.
C19_Witness ==
  /\ history.handleRestart = 1
  /\ frame.n = 0 /\ ~clock.running
  /\ score = 0 /\ time = 0 /\ ~showLeaderboard

\* The number of entries of the table of the call, and of those with a
\* score of at least v.
EntriesOfCall == call.table[1] + call.table[2] + call.table[3]
EntriesFrom(v) ==
  Cardinality({ <<w, k>> \in StoredScores \X (1..MaxEntries) :
                  w >= v /\ k <= call.table[w] })

\* C20: checkHighScore(score) is true iff the leaderboard holds fewer than
\* 10 entries or score is greater than the 10th-highest stored score (the
\* score v with at least 10 entries at or above it and fewer than 10 above
\* it); with fewer than 10 entries it is true for every score, 0 included.
C20_QualifiesForTop10 ==
  call.state = "returned" /\ call.fn = "checkHighScore" /\ ~call.error =>
    call.result =
      (\/ EntriesOfCall < 10
       \/ \E v \in StoredScores :
            /\ EntriesFrom(v) >= 10 /\ EntriesFrom(v + 1) < 10
            /\ call.score > v)

\* C21: whenever no call of addHighScore is in progress (every call made
\* has returned), the persisted leaderboard holds at most 10 entries, it
\* holds 10 once 10 have been submitted, and no submitted entry that is
\* not in it has a higher score than an entry in it.
C21_TrimmedToTop10 ==
  call.state = "service" /\ (\A c \in Clients : call.clients[c].pc = "idle") =>
    /\ Len(leaderboard) <= 10
    /\ Len(call.submitted) >= 10 => Len(leaderboard) = 10
    /\ \A i \in 1..Len(call.submitted), k \in 1..Len(leaderboard) :
         (\A j \in 1..Len(leaderboard) : leaderboard[j].id # call.submitted[i].id)
           => call.submitted[i].score <= leaderboard[k].score

\* C22: while the leaderboard is shown the Play Again button is rendered,
\* whatever the service has answered and while an answer is awaited; and a
\* step of the Leaderboard component (an answer of the service, an edit, a
\* submit) changes neither the score, nor the time, nor the flags of the
\* run.
C22_RunOutcomeKept ==
  /\ [](rendered.showLeaderboard =>
          "playAgain" \in elements(rendered.showLeaderboard, board))
  /\ [][board' # board /\ history' = history =>
          /\ score' = score /\ time' = time
          /\ gameOver' = gameOver /\ showLeaderboard' = showLeaderboard]_vars

\* The submit has failed with the leaderboard shown.
C22_Witness ==
  /\ rendered.showLeaderboard
  /\ call.state = "answered" /\ call.fn = "addHighScore" /\ call.error
  /\ score > 0 /\ time > 0

\* The same while the first answer of the service is awaited.
C22_WitnessLoading ==
  /\ rendered.showLeaderboard
  /\ board.isLoading /\ board.request = "checkHighScore"

\* C23: the entry of every call of addHighScore by the component has a
\* name of 1 to 3 characters, in upper case and not of whitespace only, and
\* a score and a time that are non-negative whole numbers.
C23_SubmittedEntry ==
  call.state = "sent" /\ call.fn = "addHighScore" =>
    /\ Len(call.name) \in 1..3
    /\ call.name = toUpperCase(call.name)
    /\ trim(call.name) # << >>
    /\ Floor(call.score, PosUnit) \in Nat
    /\ Floor(call.time, 10) \in Nat

\* The collision tests of a frame, on the positions after the step.
ObstacleTestAfter == obstacleLoop(playerPosition', rendered.obstacles, 1)
YetiTestAfter ==
  rendered.yetiState.active /\ checkYetiCollision(playerPosition', yetiRef')

\* C24: in a frame the player and the yeti are moved first, the collision
\* tests read the positions so advanced (the yeti test is reached only if
\* no obstacle is hit), and the score and the speed are updated last: a
\* frame that changes the score or the speed has had both tests false.
C24_FrameOrder ==
  [][FrameRan =>
       /\ frame'.hitObstacle = ObstacleTestAfter
       /\ frame'.hitYeti = (~ObstacleTestAfter /\ YetiTestAfter)
       /\ (score' # score \/ speed' # speed) =>
            ~ObstacleTestAfter /\ ~YetiTestAfter]_vars

\* A frame with a positive delta time in which the moving yeti has been
\* hit at the advanced positions.
C24_Witness ==
  /\ frame.ran /\ frame.moved /\ frame.hitYeti
  /\ frame.deltaTime > 0
  /\ checkYetiCollision(playerPosition, yetiRef)

\* C25: a frame that detects a collision, with an obstacle or with the
\* yeti, leaves the score and the speed as they were and sets gameOver.
C25_CollisionFrame ==
  [][FrameRan /\ (frame'.hitObstacle \/ frame'.hitYeti) =>
       /\ score' = score
       /\ speed' = speed
       /\ gameOver']_vars

\* A frame with a positive delta time has detected a collision with the
\* yeti, in a run with a positive score.
C25_Witness ==
  /\ frame.ran /\ frame.hitYeti /\ frame.deltaTime > 0
  /\ gameOver /\ score > 0

\* The same for a collision with an obstacle.
C25_WitnessObstacle ==
  /\ frame.ran /\ frame.hitObstacle /\ frame.deltaTime > 0
  /\ gameOver

\* C26: the delta time of every frame of the simulation is the smaller of
\* the time elapsed since the previous frame and the frame cap 0.1 s, so
\* it lies within [0, 0.1]; a frame after a longer stall runs with exactly
\* the cap.
C26_DeltaClamped ==
  [][FrameRan =>
       LET elapsed == IF clock.running
                      THEN clock'.elapsedTime - clock.elapsedTime ELSE 0
       IN  /\ frame'.deltaTime = Min(elapsed, DtCap)
           /\ frame'.deltaTime >= 0 /\ frame'.deltaTime <= DtCap
           /\ elapsed > DtCap =>
                /\ frame'.deltaTime = DtCap
                /\ playerPosition'.z < playerPosition.z]_vars

\* A frame after a stall of 0.15 s has run with the frame cap.
C26_Witness ==
  /\ frame.n >= 2 /\ frame.ran
  /\ clock.elapsedTime >= MaxElapsed
  /\ lastFrameTime = clock.elapsedTime
  /\ MaxElapsed > DtCap
  /\ frame.deltaTime = DtCap

\* The player's box lies uphill of the box [bMin, bMax] before the step and
\* downhill of it after the step, and overlaps it in x and y throughout.
PassesBox(bMin, bMax) ==
  LET aMin == playerMin(playerPosition)
      aMax == playerMax(playerPosition)
      cMin == playerMin(playerPosition')
      cMax == playerMax(playerPosition')
  IN  /\ aMin.z > bMax.z
      /\ cMax.z < bMin.z
      /\ aMax.x >= bMin.x /\ aMin.x <= bMax.x
      /\ cMax.x >= bMin.x /\ cMin.x <= bMax.x
      /\ aMax.y >= bMin.y /\ aMin.y <= bMax.y

PassesObstacle(obstacle) ==
  LET config == OBSTACLES[obstacle.type]
  IN  /\ "collisionSegments" \notin DOMAIN config
      /\ PassesBox(obstacleMin(config, obstacle.position),
                   obstacleMax(config, obstacle.position))

\* C27: with the delta time clamped, no frame takes the player from one
\* side of the collision box of an obstacle to the other side: a player
\* that passes an obstacle has a frame in which its box overlaps the box of
\* the obstacle.
C27_NoTunnelling ==
  [][FrameRan /\ ~gameOver =>
       \A i \in 1..Len(rendered.obstacles) :
         ~PassesObstacle(rendered.obstacles[i])]_vars

PastBound(direction, x) ==
  \/ direction = "left" /\ x < 0 - YETI_STATIC_CONFIG.boundsX
  \/ direction = "right" /\ x > YETI_STATIC_CONFIG.boundsX

\* C30: a frame that moves an active yeti past the bound opposite to its
\* start makes it inactive, with position, direction and spawnZ null; and
\* an active yeti becomes inactive only in such a frame (or by a restart of
\* the page).
C30_DespawnPastBound ==
  /\ [][FrameRan /\ frame'.moved
          /\ PastBound(rendered.yetiState.direction, yetiRef'.x) =>
            /\ frame'.despawned
            /\ yetiState' = inactiveYeti]_vars
  /\ [][yetiState.active /\ ~yetiState'.active =>
          \/ /\ FrameRan /\ frame'.moved /\ frame'.despawned
             /\ PastBound(yetiState.direction, yetiRef'.x)
             /\ ~PastBound(yetiState.direction, yetiRef.x)
             /\ yetiState' = inactiveYeti
          \/ history'.handleRestart # history.handleRestart]_vars

\* A yeti moving to the left has passed the left bound and is inactive.
C30_Witness ==
  /\ frame.ran /\ frame.moved /\ frame.despawned
  /\ yetiRef.x < 0 - YETI_STATIC_CONFIG.boundsX
  /\ yetiState = inactiveYeti

\* The player's box and the other box of a returned call: that of the
\* yeti, or that of an obstacle of a kind with a single box.
CalledPlayer ==
  [ min |-> playerMin(call.playerPosition), max |-> playerMax(call.playerPosition) ]

CalledOther ==
  IF call.fn = "checkYetiCollision"
  THEN [ min |-> Vec(call.yetiPosition.x - 80000, call.yetiPosition.y + 40000,
                     call.yetiPosition.z - 40000),
         max |-> Vec(call.yetiPosition.x + 80000, call.yetiPosition.y + 360000,
                     call.yetiPosition.z + 40000) ]
  ELSE [ min |-> obstacleMin(OBSTACLES[call.obstacle.type], call.obstacle.position),
         max |-> obstacleMax(OBSTACLES[call.obstacle.type], call.obstacle.position) ]

ReturnedBoxes ==
  /\ call.state = "returned"
  /\ \/ call.fn = "checkYetiCollision" /\ call.yetiPosition # Null
     \/ call.fn = "checkCollision" /\ Regular

Axes == {"x", "y", "z"}

\* On the axis the two intervals share exactly one boundary value, they
\* share at least one value, they share none.
Touch(axis) ==
  \/ CalledPlayer.max[axis] = CalledOther.min[axis]
  \/ CalledPlayer.min[axis] = CalledOther.max[axis]

Meet(axis) ==
  \E v \in { CalledPlayer.min[axis], CalledPlayer.max[axis],
             CalledOther.min[axis], CalledOther.max[axis] } :
    /\ CalledPlayer.min[axis] <= v /\ v <= CalledPlayer.max[axis]
    /\ CalledOther.min[axis] <= v /\ v <= CalledOther.max[axis]

\* C28: checkCollision and checkYetiCollision are true when the two boxes
\* share exactly one boundary value on one axis and share values on the
\* other two, and false when on some axis they share no value.
C28_InclusiveOverlap ==
  ReturnedBoxes =>
    /\ \A axis \in Axes :
         Touch(axis) /\ (\A other \in Axes \ {axis} : Meet(other)) => call.result
    /\ (\E axis \in Axes : ~Meet(axis)) => ~call.result

\* The player's box touches the box of the yeti on the x axis alone, and
\* the test is true.
C28_Witness ==
  /\ ReturnedBoxes /\ call.fn = "checkYetiCollision"
  /\ Touch("x") /\ ~Touch("y") /\ ~Touch("z")
  /\ call.result

\* The same for a rock, on the z axis, and for a box one unit apart.
C28_WitnessRock ==
  /\ ReturnedBoxes /\ call.fn = "checkCollision"
  /\ call.obstacle.type = "rock"
  /\ Touch("z") /\ ~Touch("x") /\ ~Touch("y")
  /\ call.result

C28_WitnessApart ==
  /\ ReturnedBoxes /\ call.fn = "checkYetiCollision"
  /\ ~Meet("z") /\ Meet("x") /\ Meet("y")
  /\ ~call.result

\* C31: checkYetiCollision is false for a null position, wherever the
\* player is; and a frame detects a collision with the yeti only if the
\* yeti was active when the frame began, neither before a spawn nor after
\* the despawn.
C31_OnlyActiveYetiHits ==
  /\ [](~checkYetiCollision(playerPosition, yetiState.position)
          \/ yetiState.active)
  /\ [](~checkYetiCollision(playerPosition, Null))
  /\ [][FrameRan /\ frame'.hitYeti =>
          /\ yetiState.active /\ rendered.yetiState.active
          /\ yetiState.position # Null]_vars

\* A frame has run with no yeti spawned while the place the yeti's
\* position object was created at lies within the player's box, and the run
\* goes on.
C31_Witness ==
  /\ frame.ran /\ ~frame.hitYeti
  /\ ~yetiState.active /\ ~rendered.yetiState.active
  /\ yetiState.position = Null
  /\ checkYetiCollision(playerPosition, yetiRef)
  /\ ~gameOver

\* The yeti has despawned, a frame with the values of the render before
\* the despawn has run, and the run goes on.
C31_WitnessDespawned ==
  /\ frame.ran /\ frame.moved /\ frame.despawned
  /\ ~yetiState.active /\ rendered.yetiState.active
  /\ yetiRef.x < 0 - YETI_STATIC_CONFIG.boundsX - BASE_YETI_SPEED * SpeedUnit * DtCap * 2
  /\ ~gameOver

\* C32: the obstacles of a segment that the player has passed by more than
\* two segment lengths are evicted by the cleanup pass, the only step that
\* evicts: after a cleanup pass no live obstacle and no visible segment
\* has an index above floor(playerZ/L) + 2.
C32_PassedSegmentsEvicted ==
  [][FrameStep /\ frame'.cleanup =>
       /\ \A j \in 1..Len(obstacles') :
            Floor(obstacles'[j].position.z, segmentLength) <= SegmentOfPlayer + 2
       /\ \A j \in 1..Len(visibleSegments') :
            visibleSegments'[j] <= SegmentOfPlayer + 2]_vars

\* The kinds whose cumulative weight is greater than the draw of the call.
Exceeding ==
  { i \in 1..Len(obstacleTypes) :
      cumulativeWeightOf(call.weights, i) * DrawUnit > call.random * 10 }

Selected == call.state = "returned" /\ call.fn = "selectType"

\* C33: the selection returns the first kind in catalogue order (tree,
\* rock, bump, pole) whose cumulative weight is strictly greater than the
\* draw, and the first kind of the catalogue when there is none.
C33_FirstExceeding ==
  Selected =>
    /\ obstacleTypes = << "tree", "rock", "bump", "pole" >>
    /\ call.result =
         IF Exceeding = {} THEN obstacleTypes[1]
         ELSE obstacleTypes[CHOOSE i \in Exceeding : \A j \in Exceeding : i <= j]

\* With the weights of OBSTACLES the draw 0.4, the cumulative weight of
\* the tree, has selected the rock.
C33_Witness ==
  /\ Selected /\ call.weights = weightsOf(OBSTACLES)
  /\ call.random * 10 = cumulativeWeightOf(call.weights, 1) * DrawUnit
  /\ call.result = "rock"

\* With weights that sum to 0.5 a draw above every cumulative weight has
\* selected the first kind.
C33_WitnessNone ==
  /\ Selected /\ Exceeding = {}
  /\ call.result = "tree"

\* The kind of the call's result, and the total weight of its catalogue.
ResultIndex == CHOOSE i \in 1..Len(obstacleTypes) : obstacleTypes[i] = call.result
TotalWeight == cumulativeWeightOf(call.weights, Len(obstacleTypes))

\* C34 as stated: whatever the weights sum to, a kind is selected for the
\* draws between the cumulative weights before it and up to it, both
\* divided by the total weight.
C34_Original ==
  Selected =>
    /\ cumulativeWeightOf(call.weights, ResultIndex - 1) * DrawUnit
         <= call.random * TotalWeight
    /\ call.random * TotalWeight
         < cumulativeWeightOf(call.weights, ResultIndex) * DrawUnit

\* C34: the weights are not normalized.  A kind is selected for the draws
\* between the cumulative weights before it and up to it as they are, so
\* its share equals weight / total only when the weights sum to 1, as
\* those of OBSTACLES do; the draws above the total weight select the
\* first kind, and a kind whose cumulative weight starts at 1 or above is
\* never selected.
C34_SharesByWeight ==
  Selected =>
    /\ \/ /\ cumulativeWeightOf(call.weights, ResultIndex - 1) * DrawUnit
               <= call.random * 10
          /\ call.random * 10
               < cumulativeWeightOf(call.weights, ResultIndex) * DrawUnit
       \/ /\ TotalWeight * DrawUnit <= call.random * 10
          /\ ResultIndex = 1
    /\ cumulativeWeightOf(call.weights, ResultIndex - 1) < 10
    /\ call.weights = weightsOf(OBSTACLES) => C34_Original

\* With weights that sum to 2 the draw 0.45 has selected the first kind,
\* of weight 0.8, whose normalized share ends at 0.4.
C34_Witness ==
  /\ Selected /\ TotalWeight = 20
  /\ call.random * 10 = 45 * (DrawUnit \div 10)
  /\ call.result = "tree"

\* C35: no two obstacles of the live set have the same id, whichever
\* segments they were generated for.
C35_UniqueIds ==
  call.state = "streaming" =>
    \A i, j \in 1..Len(call.live) :
      i # j => call.live[i].id # call.live[j].id

\* C36: every obstacle generated for the segment of index i has y = 0 and
\* a z whose segment index floor(z/L) is i.
C36_GeneratedInOwnSegment ==
  [][call.state = "streaming" /\ call'.generated = call.generated + 1 =>
       \A j \in (Len(call.live) + 1)..Len(call'.live) :
         /\ call'.live[j].position.y = 0
         /\ Floor(call'.live[j].position.z, segmentLength)
              = StreamedSegments[call'.generated]]_vars

\* C37: while frames with a positive delta time keep arriving and the
\* run does not crash, an active yeti eventually becomes inactive.
C37_YetiEventuallyInactive ==
  yetiState.active ~> (~yetiState.active \/ gameOver)

\* A yeti moving to the right has become inactive beyond the right bound
\* in a run that goes on.
C37_Witness ==
  /\ ~yetiState.active /\ ~gameOver
  /\ frame.ran /\ frame.despawned /\ frame.deltaTime > 0
  /\ yetiRef.x > YETI_STATIC_CONFIG.boundsX

\* C38: once gameOver is true the elapsed time of the run no longer
\* increases (a restart begins another run).
C38_TimeStopsAtCrash ==
  [][gameOver /\ history' = history => time' = time]_vars

\* The run's score has been stored: addHighScore has returned true.
Stored == board.hasSubmitted \/ board.request = "getLeaderboardUpdated"

\* C39: at most one submission of a run succeeds.  Once addHighScore has
\* returned true the form is no longer rendered and, until the restart,
\* no further row is stored; a submission that fails stores nothing and
\* leaves the form rendered for another attempt.
C39_OneSubmissionPerRun ==
  /\ [](Stored => "form" \notin elements(rendered.showLeaderboard, board))
  /\ [][Stored /\ history' = history =>
          Stored' /\ leaderboard' = leaderboard]_vars
  /\ [][board.request = "addHighScore" /\ board'.request = "done" =>
          /\ call'.error /\ leaderboard' = leaderboard /\ ~Stored'
          /\ "form" \in elements(rendered'.showLeaderboard, board')]_vars
  /\ [][leaderboard' # leaderboard =>
          /\ ~Stored /\ Stored'
          /\ Len(leaderboard') = Len(leaderboard) + 1]_vars

\* The submission has succeeded and the updated board has been fetched.
C39_Witness ==
  /\ rendered.showLeaderboard /\ board.hasSubmitted /\ ~board.isLoading
  /\ Len(leaderboard) > 0
  /\ call.fn = "getLeaderboard" /\ call.state = "answered"

\* A submission has failed, and the form is rendered again.
C39_WitnessFailed ==
  /\ rendered.showLeaderboard /\ board.request = "done"
  /\ call.fn = "addHighScore" /\ call.state = "answered" /\ call.error
  /\ ~board.hasSubmitted
  /\ "form" \in elements(rendered.showLeaderboard, board)

====
